---- MODULE Spec2Model ----
(***************************************************************************)
(* MEX correlation / anomaly core: mex/correlate.py (MetadataCorrelator)   *)
(* and mex/analyze.py (AnomalyDetector) over a list of metadata records.   *)
(*                                                                         *)
(* Python values are tagged records: None, Str (a sequence of one-letter   *)
(* strings), Num (an integer), Dict (a function from key strings) and      *)
(* Raise, the outcome of an expression that raises.  A key that is missing *)
(* from a dict is a key outside the DOMAIN of its function.                *)
(***************************************************************************)
EXTENDS Integers, Sequences, FiniteSets, TLC

\* ------------------------------------------------------------------ bounds
MaxRecords == 3
MaxCalls == 2

\* ----------------------------------------------------------- Python values
None == [t |-> "none"]
Raise == [t |-> "raise"]
Str(s) == [t |-> "str", s |-> s]
Num(n) == [t |-> "num", n |-> n]
Dict(f) == [t |-> "dict", d |-> f]
EmptyDict == Dict([k \in {} |-> None])

\* d.get(k, dflt): AttributeError when d is None (or any non-dict).
Get(d, k, dflt) ==
    IF d.t # "dict" THEN Raise
    ELSE IF k \in DOMAIN d.d THEN d.d[k] ELSE dflt

\* d[k] after a truthiness test of d.get(k).
Item(d, k) ==
    IF d.t # "dict" THEN Raise
    ELSE IF k \in DOMAIN d.d THEN d.d[k] ELSE Raise

\* bool(v) as used by `if v:` and `a and b`.
Truthy(v) ==
    CASE v.t = "none" -> FALSE
      [] v.t = "str" -> v.s # <<>>
      [] v.t = "num" -> v.n # 0
      [] v.t = "dict" -> DOMAIN v.d # {}
      [] OTHER -> FALSE

IsRaise(v) == DOMAIN v = {"t"} /\ v.t = "raise"

\* A Python list or set held where an exception may stand in its place.
List(seq) == [t |-> "list", v |-> seq]

\* ----------------------------------------------------------------- strings
UpperCase ==
    <<"A","B","C","D","E","F","G","H","I","J","K","L","M",
      "N","O","P","Q","R","S","T","U","V","W","X","Y","Z">>
LowerCase ==
    <<"a","b","c","d","e","f","g","h","i","j","k","l","m",
      "n","o","p","q","r","s","t","u","v","w","x","y","z">>

lower_char(c) ==
    IF \E i \in 1..26 : UpperCase[i] = c
    THEN LowerCase[CHOOSE i \in 1..26 : UpperCase[i] = c]
    ELSE c

\* str.lower()
str_lower(s) == [i \in 1..Len(s) |-> lower_char(s[i])]

IsSpace(c) == c \in {" ", "\t", "\n"}

RECURSIVE lstrip(_)
lstrip(s) == IF s # <<>> /\ IsSpace(Head(s)) THEN lstrip(Tail(s)) ELSE s

RECURSIVE rstrip(_)
rstrip(s) ==
    IF s # <<>> /\ IsSpace(s[Len(s)]) THEN rstrip(SubSeq(s, 1, Len(s) - 1)) ELSE s

\* str.strip()
str_strip(s) == rstrip(lstrip(s))

\* v.lower().strip(): AttributeError when v is not a string.
LowerStrip(v) == IF v.t = "str" THEN Str(str_strip(str_lower(v.s))) ELSE Raise

\* `sub in s` for strings.
Contains(s, sub) ==
    \E i \in 0..(Len(s) - Len(sub)) : SubSeq(s, i + 1, i + Len(sub)) = sub

DigitChars == <<"0","1","2","3","4","5","6","7","8","9">>

\* str(n) for n >= 0.
RECURSIVE Digits(_)
Digits(n) ==
    IF n < 10 THEN <<DigitChars[n + 1]>>
    ELSE Digits(n \div 10) \o <<DigitChars[(n % 10) + 1]>>

\* The digits of n, left-padded with zeros to w places.
RECURSIVE Pad(_, _)
Pad(n, w) == IF w <= 1 THEN Digits(n)
             ELSE IF Len(Digits(n)) >= w THEN Digits(n)
             ELSE <<"0">> \o Pad(n, w - 1)

\* --------------------------------------------------------------- datetimes
\* datetime.isoformat(), as format_timestamp() writes the timestamps of a
\* record: "YYYY-MM-DDTHH:MM:SS" followed by the UTC offset text tz (empty
\* for a naive datetime).
isoformat(y, mo, d, h, mi, sec, tz) ==
    Pad(y, 4) \o <<"-">> \o Pad(mo, 2) \o <<"-">> \o Pad(d, 2) \o <<"T">>
    \o Pad(h, 2) \o <<":">> \o Pad(mi, 2) \o <<":">> \o Pad(sec, 2) \o tz

IsDigit(c) == \E i \in 1..10 : DigitChars[i] = c
DigitVal(c) == (CHOOSE i \in 1..10 : DigitChars[i] = c) - 1

AllDigits(s) == \A i \in 1..Len(s) : IsDigit(s[i])

RECURSIVE ToInt(_)
ToInt(s) == IF s = <<>> THEN 0
            ELSE 10 * ToInt(SubSeq(s, 1, Len(s) - 1)) + DigitVal(s[Len(s)])

IsLeap(y) == (y % 4 = 0 /\ y % 100 # 0) \/ y % 400 = 0

DaysInMonth(y, mo) ==
    IF mo = 2 THEN (IF IsLeap(y) THEN 29 ELSE 28)
    ELSE IF mo \in {4, 6, 9, 11} THEN 30 ELSE 31

\* Days from 2000-01-01 to the civil date y-mo-d (proleptic Gregorian).
DaysFromCivil(y, mo, d) ==
    LET yy == IF mo <= 2 THEN y - 1 ELSE y
        era == yy \div 400
        yoe == yy - era * 400
        mp == IF mo > 2 THEN mo - 3 ELSE mo + 9
        doy == (153 * mp + 2) \div 5 + d - 1
        doe == yoe * 365 + yoe \div 4 - yoe \div 100 + doy
    IN era * 146097 + doe - 719468 - 10957

\* The UTC offset text: "" (naive), "Z", or "+HH:MM" / "-HH:MM".
\* Result: [ok, aware, off] with off in seconds.
ParseOffset(s) ==
    IF s = <<>> THEN [ok |-> TRUE, aware |-> FALSE, off |-> 0]
    ELSE IF s = <<"Z">> THEN [ok |-> TRUE, aware |-> TRUE, off |-> 0]
    ELSE IF Len(s) = 6 /\ s[1] \in {"+", "-"} /\ s[4] = ":"
            /\ AllDigits(SubSeq(s, 2, 3)) /\ AllDigits(SubSeq(s, 5, 6))
         THEN LET mag == ToInt(SubSeq(s, 2, 3)) * 3600 + ToInt(SubSeq(s, 5, 6)) * 60
              IN [ok |-> TRUE, aware |-> TRUE,
                  off |-> IF s[1] = "-" THEN 0 - mag ELSE mag]
    ELSE [ok |-> FALSE, aware |-> FALSE, off |-> 0]

\* dateutil.parser.parse(v) on the ISO-8601 texts the extractors write:
\* a date, or a date and a time with an optional UTC offset.  Anything else
\* raises (ValueError for an unparsable string, TypeError for a non-string).
\* A datetime is [t, secs, aware, off, year]: secs is the local wall time in
\* seconds from 2000-01-01T00:00:00.
date_parse(v) ==
    IF v.t # "str" THEN Raise
    ELSE LET s == v.s
             n == Len(s)
             dateOk == n >= 10 /\ AllDigits(SubSeq(s, 1, 4)) /\ s[5] = "-"
                       /\ AllDigits(SubSeq(s, 6, 7)) /\ s[8] = "-"
                       /\ AllDigits(SubSeq(s, 9, 10))
             y == ToInt(SubSeq(s, 1, 4))
             mo == ToInt(SubSeq(s, 6, 7))
             d == ToInt(SubSeq(s, 9, 10))
             civilOk == dateOk /\ y >= 1 /\ mo \in 1..12 /\ d >= 1
                        /\ d <= DaysInMonth(y, mo)
             timeOk == n >= 19 /\ s[11] \in {"T", " "}
                       /\ AllDigits(SubSeq(s, 12, 13)) /\ s[14] = ":"
                       /\ AllDigits(SubSeq(s, 15, 16)) /\ s[17] = ":"
                       /\ AllDigits(SubSeq(s, 18, 19))
             h == ToInt(SubSeq(s, 12, 13))
             mi == ToInt(SubSeq(s, 15, 16))
             sec == ToInt(SubSeq(s, 18, 19))
             tz == ParseOffset(SubSeq(s, 20, n))
         IN IF ~civilOk THEN Raise
            ELSE IF n = 10
              THEN [t |-> "datetime", secs |-> DaysFromCivil(y, mo, d) * 86400,
                    aware |-> FALSE, off |-> 0, year |-> y]
            ELSE IF timeOk /\ h < 24 /\ mi < 60 /\ sec < 60 /\ tz.ok
              THEN [t |-> "datetime",
                    secs |-> DaysFromCivil(y, mo, d) * 86400 + h * 3600 + mi * 60 + sec,
                    aware |-> tz.aware, off |-> tz.off, year |-> y]
            ELSE Raise

\* a - b for datetimes, as timedelta seconds: TypeError when one is
\* offset-aware and the other offset-naive.
dt_sub(a, b) ==
    IF a.aware # b.aware THEN Raise
    ELSE Num((a.secs - a.off) - (b.secs - b.off))

\* a <= b for datetimes.
dt_less_or_equal(a, b) ==
    IF a.aware # b.aware THEN Raise
    ELSE IF (a.secs - a.off) <= (b.secs - b.off) THEN Num(1) ELSE Num(0)

\* a < b for datetimes: TypeError for an aware / naive pair.
dt_less(a, b) ==
    IF a.aware # b.aware THEN Raise
    ELSE IF (a.secs - a.off) < (b.secs - b.off) THEN Num(1) ELSE Num(0)

\* timedelta.days: the whole days of a (possibly negative) timedelta, floored.
td_days(secs) == secs \div 86400

Abs(n) == IF n < 0 THEN 0 - n ELSE n

\* round(x, k) of the non-negative rational num / den, in units of 10^-k:
\* Python rounds half to even.
RoundHalfEven(num, den) ==
    LET q == num \div den
        r == num % den
    IN IF 2 * r > den THEN q + 1
       ELSE IF 2 * r < den THEN q
       ELSE IF q % 2 = 0 THEN q ELSE q + 1

\* ------------------------------------------------------------------ floats
\* Python floats of the distance computation are modelled as binary floating
\* point numbers [t, m, e] = m * 2^e with a 15-bit mantissa (2^14 <= |m| < 2^15,
\* or m = 0), every operation rounding its result to the nearest mantissa.
FMant == 2 ^ 15
FZero == [t |-> "float", m |-> 0, e |-> 0]

RECURSIVE FNorm(_, _)
FNorm(m, e) ==
    IF m = 0 THEN FZero
    ELSE IF Abs(m) >= 2 * FMant
      THEN FNorm((IF m < 0 THEN -1 ELSE 1) * (Abs(m) \div 2), e + 1)
    ELSE IF Abs(m) >= FMant
      THEN LET h == (Abs(m) + 1) \div 2
           IN FNorm((IF m < 0 THEN -1 ELSE 1) * h, e + 1)
    ELSE IF Abs(m) < FMant \div 2 THEN FNorm(m * 2, e - 1)
    ELSE [t |-> "float", m |-> m, e |-> e]

FInt(n) == FNorm(n, 0)
FNeg(a) == [t |-> "float", m |-> 0 - a.m, e |-> a.e]
FMul(a, b) == FNorm(a.m * b.m, a.e + b.e)

FDiv(a, b) ==
    FNorm((IF (a.m < 0) # (b.m < 0) THEN -1 ELSE 1) * ((Abs(a.m) * FMant) \div Abs(b.m)),
          a.e - 15 - b.e)

FAdd(a, b) ==
    IF a.m = 0 THEN b
    ELSE IF b.m = 0 THEN a
    ELSE LET big == IF a.e >= b.e THEN a ELSE b
             small == IF a.e >= b.e THEN b ELSE a
             d == big.e - small.e
         IN IF d >= 30 THEN big
            ELSE FNorm(big.m * FMant
                       + (IF small.m < 0 THEN -1 ELSE 1)
                         * ((Abs(small.m) * FMant) \div (2 ^ d)),
                       big.e - 15)

FSub(a, b) == FAdd(a, FNeg(b))
FLess(a, b) == FSub(a, b).m < 0
FLeq(a, b) == FSub(a, b).m <= 0

\* floor(sqrt(n)) for 0 <= n < 2^31, by bisection on [lo, hi].
RECURSIVE ISqrt(_, _, _)
ISqrt(n, lo, hi) ==
    IF lo >= hi THEN lo
    ELSE LET mid == (lo + hi + 1) \div 2
         IN IF mid * mid <= n THEN ISqrt(n, mid, hi) ELSE ISqrt(n, lo, mid - 1)

\* math.sqrt: ValueError (math domain error) for a negative argument.
FSqrt(a) ==
    IF a.m < 0 THEN Raise
    ELSE IF a.m = 0 THEN a
    ELSE LET odd == a.e % 2 # 0
             mm == (IF odd THEN 2 * a.m ELSE a.m) * (2 ^ 14)
             ee == (IF odd THEN a.e - 1 ELSE a.e) - 14
         IN FNorm(ISqrt(mm, 0, 46340), ee \div 2)

\* The Taylor series of sin and cos around 0, from the term of index k.
RECURSIVE SinTerms(_, _, _, _)
SinTerms(term, x2, k, n) ==
    IF k > n THEN FZero
    ELSE FAdd(term,
              SinTerms(FNeg(FDiv(FMul(term, x2), FInt((2 * k + 2) * (2 * k + 3)))),
                       x2, k + 1, n))

RECURSIVE CosTerms(_, _, _, _)
CosTerms(term, x2, k, n) ==
    IF k > n THEN FZero
    ELSE FAdd(term,
              CosTerms(FNeg(FDiv(FMul(term, x2), FInt((2 * k + 1) * (2 * k + 2)))),
                       x2, k + 1, n))

\* math.sin, math.cos
FSin(x) == SinTerms(x, FMul(x, x), 0, 10)
FCos(x) == CosTerms(FInt(1), FMul(x, x), 0, 10)

\* atan(t) for 0 <= t: the series, after halving the angle twice
\* (atan t = 2 atan(t / (1 + sqrt(1 + t^2)))).
RECURSIVE AtanTerms(_, _, _, _)
AtanTerms(pow, t2, k, n) ==
    IF k > n THEN FZero
    ELSE FAdd(FDiv(pow, FInt((IF k % 2 = 0 THEN 1 ELSE -1) * (2 * k + 1))),
              AtanTerms(FMul(pow, t2), t2, k + 1, n))

AtanHalve(t) == FDiv(t, FAdd(FInt(1), FSqrt(FAdd(FInt(1), FMul(t, t)))))

FAtanUnit(t) ==
    LET u == AtanHalve(AtanHalve(t))
    IN FMul(FInt(4), AtanTerms(u, FMul(u, u), 0, 5))

FHalfPi == FDiv(FInt(31416), FInt(20000))

\* math.atan2(y, x) for y >= 0 and x >= 0.
FAtan2(y, x) ==
    IF y.m = 0 THEN FZero
    ELSE IF x.m = 0 THEN FHalfPi
    ELSE IF FLeq(y, x) THEN FAtanUnit(FDiv(y, x))
    ELSE FSub(FHalfPi, FAtanUnit(FDiv(x, y)))

\* -------------------------------------------------------------- distances
\* Coordinates are Num values in units of 10^-4 degree.
DegreeUnits == 10 ^ 4

\* math.radians(deg) in units of 10^-8 radian (pi / 180 * 10^4 = 174.533).
Radians8(n) ==
    LET q == Abs(n) \div 1000
        r == Abs(n) % 1000
        v == q * 174533 + (r * 174533) \div 1000
    IN IF n < 0 THEN 0 - v ELSE v

FromRad8(x) == FDiv(FInt(x), FInt(100000000))

EarthRadiusKm == 6371

\* MetadataCorrelator._calculate_distance: the Haversine distance in km, as
\* a float; Raise when a coordinate is not a number (TypeError in radians())
\* or a square root is taken of a negative number (ValueError).
calculate_distance(lat1, lon1, lat2, lon2) ==
    IF lat1.t # "num" \/ lon1.t # "num" \/ lat2.t # "num" \/ lon2.t # "num"
    THEN Raise
    ELSE LET rlat1 == Radians8(lat1.n)
             rlon1 == Radians8(lon1.n)
             rlat2 == Radians8(lat2.n)
             rlon2 == Radians8(lon2.n)
             dlat == rlat2 - rlat1
             dlon == rlon2 - rlon1
             sdlat == FSin(FDiv(FromRad8(dlat), FInt(2)))
             sdlon == FSin(FDiv(FromRad8(dlon), FInt(2)))
             a == FAdd(FMul(sdlat, sdlat),
                       FMul(FMul(FCos(FromRad8(rlat1)), FCos(FromRad8(rlat2))),
                            FMul(sdlon, sdlon)))
             sa == FSqrt(a)
             sb == FSqrt(FSub(FInt(1), a))
         IN IF IsRaise(sa) \/ IsRaise(sb) THEN Raise
            ELSE FMul(FInt(EarthRadiusKm), FMul(FInt(2), FAtan2(sa, sb)))

\* A float of km as a whole number of metres: round(distance, 3).
RoundMetres(d) ==
    IF d.m = 0 THEN 0
    ELSE IF d.e >= 0 THEN d.m * 1000 * (2 ^ d.e)
    ELSE IF 0 - d.e > 30 THEN 0
    ELSE RoundHalfEven(d.m * 1000, 2 ^ (0 - d.e))

\* ------------------------------------------------------------------ graph
\* networkx.Graph: the nodes in insertion order and at most one edge per
\* unordered pair of nodes, each edge with one attribute dict.
EmptyGraph == [nodes |-> <<>>, edges |-> {}]

InSeq(x, q) == \E i \in 1..Len(q) : q[i] = x

\* Graph.add_node(n): an existing node keeps its place.
add_node(g, n) == IF InSeq(n, g.nodes) THEN g ELSE [g EXCEPT !.nodes = Append(@, n)]

\* dict.update(new) on an attribute dict.
MergeAttrs(old, new) ==
    [k \in (DOMAIN old) \cup (DOMAIN new) |-> IF k \in DOMAIN new THEN new[k] ELSE old[k]]

\* Graph.add_edge(u, v, **attrs): a second add_edge on the same pair of
\* nodes updates the attribute dict of the one edge between them.
add_edge(g, u, v, attrs) ==
    LET g2 == add_node(add_node(g, u), v)
        old == {e \in g2.edges : e.ends = {u, v}}
    IN [g2 EXCEPT !.edges =
          IF old = {} THEN @ \cup {[ends |-> {u, v}, attrs |-> attrs]}
          ELSE (@ \ old)
               \cup {[ends |-> {u, v}, attrs |-> MergeAttrs(e.attrs, attrs)] : e \in old}]

\* Graph.degree(n): a self-loop counts twice.
degree(g, n) ==
    Cardinality({e \in g.edges : n \in e.ends})
    + Cardinality({e \in g.edges : e.ends = {n}})

\* for i in range(len(files)): for j in range(i + 1, len(files)): add_edge
RECURSIVE add_clique(_, _, _, _, _)
add_clique(g, files, i, j, attrs) ==
    IF i > Len(files) THEN g
    ELSE IF j > Len(files) THEN add_clique(g, files, i + 1, i + 2, attrs)
    ELSE add_clique(add_edge(g, files[i], files[j], attrs), files, i, j + 1, attrs)

\* ------------------------------------------------------------ correlators
\* metadata.get('file_info', {}).get('name', f'file_{idx}'), idx from 0.
file_name(md, idx) ==
    Get(Get(md, "file_info", EmptyDict), "name",
        Str(<<"f", "i", "l", "e", "_">> \o Digits(idx)))

\* Iteration over a Python set of strings: the order follows the string
\* hashes of the process, given as seed, a sequence that lists every key once.
RECURSIVE IterSet(_, _)
IterSet(S, seed) ==
    IF seed = <<>> THEN <<>>
    ELSE (IF Head(seed) \in S THEN <<Head(seed)>> ELSE <<>>) \o IterSet(S, Tail(seed))

\* A map whose lists grow at the front.
MapAppendFront(map, key, name) ==
    IF \E i \in 1..Len(map) : map[i].key = key
    THEN LET i == CHOOSE i \in 1..Len(map) : map[i].key = key
         IN [map EXCEPT ![i].files = <<name>> \o @]
    ELSE Append(map, [key |-> key, files |-> <<name>>])

\* defaultdict(list): the keys in insertion order, each with its list.
\* map[key].append(name)
MapAppend(map, key, name) ==
    IF \E i \in 1..Len(map) : map[i].key = key
    THEN LET i == CHOOSE i \in 1..Len(map) : map[i].key = key
         IN [map EXCEPT ![i].files = Append(@, name)]
    ELSE Append(map, [key |-> key, files |-> <<name>>])

RECURSIVE MapAppendAll(_, _, _)
MapAppendAll(map, keys, name) ==
    IF keys = <<>> THEN map
    ELSE MapAppendAll(MapAppend(map, Head(keys), name), Tail(keys), name)

\* The first loop of a grouping correlator over items [name, keys]: Raise
\* when a record raises, else the map.
RECURSIVE BuildMap(_, _)
BuildMap(items, map) ==
    IF items = <<>> THEN List(map)
    ELSE IF IsRaise(Head(items).name) \/ IsRaise(Head(items).keys) THEN Raise
    ELSE BuildMap(Tail(items), MapAppendAll(map, Head(items).keys.v, Head(items).name))

\* A candidate value of a grouping correlator:
\*   if d.get(k): keys.add(d[k].lower().strip())
\* None when the test fails, Raise when the lookup or the method raises.
Candidate(d, k) ==
    LET v == Get(d, k, None)
    IN IF IsRaise(v) THEN Raise
       ELSE IF Truthy(v) THEN LowerStrip(Item(d, k)) ELSE None

\* The set built from the candidates, in iteration order, or Raise.
CandidateKeys(cands, seed) ==
    IF \E i \in 1..Len(cands) : IsRaise(cands[i]) THEN Raise
    ELSE List(IterSet({cands[i] : i \in {j \in 1..Len(cands) : cands[j].t = "str"}}, seed))

Meta(md) == Get(md, "metadata", EmptyDict)

\* _correlate_authors, lines 69-84: the author candidates of one record.
author_candidates(md) ==
    LET doc_meta == Get(Meta(md), "document", EmptyDict)
        img_meta == Get(Meta(md), "exif", EmptyDict)
        media_meta == Get(Get(Meta(md), "media", EmptyDict), "audio_tags", EmptyDict)
    IN <<Candidate(doc_meta, "author"),
         Candidate(Get(img_meta, "software", EmptyDict), "artist"),
         Candidate(media_meta, "artist")>>

\* lines 86-87: for author in authors
author_keys(md, seed) == CandidateKeys(author_candidates(md), seed)

\* str(v) inside an f-string.
Fmt(v) == IF v.t = "str" THEN v.s ELSE IF v.t = "num" /\ v.n >= 0 THEN Digits(v.n) ELSE <<"?">>

\* _correlate_devices, lines 113-118: the device key of one record.
device_keys(md) ==
    LET img_meta == Get(Meta(md), "exif", EmptyDict)
        camera == Get(img_meta, "camera", EmptyDict)
        make == Get(camera, "make", None)
        model == Get(camera, "model", None)
    IN IF IsRaise(make) \/ IsRaise(model) THEN Raise
       ELSE IF Truthy(make) /\ Truthy(model)
         THEN List(<<Str(str_strip(str_lower(Fmt(make) \o <<" ">> \o Fmt(model))))>>)
       ELSE List(<<>>)

\* _correlate_software, lines 249-266: the software candidates of one record.
software_candidates(md) ==
    LET img_meta == Get(Meta(md), "exif", EmptyDict)
        doc == Get(Meta(md), "document", EmptyDict)
        web == Get(Meta(md), "web", EmptyDict)
    IN <<Candidate(Get(img_meta, "software", EmptyDict), "software"),
         Candidate(doc, "creator"),
         Candidate(doc, "producer"),
         Candidate(web, "generator")>>

\* lines 268-269: for software in software_names
software_keys(md, seed) == CandidateKeys(software_candidates(md), seed)

\* _correlate_hashes, lines 291-295: the hash key of one record (a dict is
\* unhashable: TypeError).
hash_keys(md) ==
    LET file_hash == Get(Get(md, "file_info", EmptyDict), "hash_sha256", None)
    IN IF IsRaise(file_hash) \/ file_hash.t = "dict" THEN Raise
       ELSE IF Truthy(file_hash) THEN List(<<file_hash>>) ELSE List(<<>>)

\* What a correlator does after its first loop is a sequence of emissions,
\* each one relationship appended to self.relationships with the edges added
\* for it: [rel, attrs] (edges between all pairs of rel.files, with attribute
\* dict attrs).  Raise in the sequence is the point where the correlator
\* raises; nothing after it happens.

\* The entries of a map, whatever the number of their files.
GroupsAll(map) == map

\* The entries of a map with more than one file: if len(files) > 1.
RECURSIVE Groups(_)
Groups(map) ==
    IF map = <<>> THEN <<>>
    ELSE (IF Len(Head(map).files) > 1 THEN <<Head(map)>> ELSE <<>>) \o Groups(Tail(map))

Items(list, keysOf) ==
    [i \in 1..Len(list) |-> [name |-> file_name(list[i], i - 1), keys |-> keysOf[i]]]

\* _correlate_authors
correlate_authors(list, seed) ==
    LET map == BuildMap(Items(list, [i \in 1..Len(list) |-> author_keys(list[i], seed)]), <<>>)
        G == IF IsRaise(map) THEN <<>> ELSE Groups(map.v)
    IN IF IsRaise(map) THEN <<Raise>>
       ELSE [i \in 1..Len(G) |->
               [t |-> "emit", rel |-> [type |-> "shared_author", value |-> G[i].key,
                         files |-> G[i].files, strength |-> "high"],
                attrs |-> [relationship |-> "shared_author", value |-> G[i].key]]]

\* _correlate_devices
correlate_devices(list) ==
    LET map == BuildMap(Items(list, [i \in 1..Len(list) |-> device_keys(list[i])]), <<>>)
        G == IF IsRaise(map) THEN <<>> ELSE Groups(map.v)
    IN IF IsRaise(map) THEN <<Raise>>
       ELSE [i \in 1..Len(G) |->
               [t |-> "emit", rel |-> [type |-> "shared_device", value |-> G[i].key,
                         files |-> G[i].files, strength |-> "high"],
                attrs |-> [relationship |-> "shared_device", value |-> G[i].key]]]

\* _correlate_software
correlate_software(list, seed) ==
    LET map == BuildMap(Items(list, [i \in 1..Len(list) |-> software_keys(list[i], seed)]), <<>>)
        G == IF IsRaise(map) THEN <<>> ELSE Groups(map.v)
    IN IF IsRaise(map) THEN <<Raise>>
       ELSE [i \in 1..Len(G) |->
               [t |-> "emit", rel |-> [type |-> "shared_software", value |-> G[i].key,
                         files |-> G[i].files, strength |-> "medium"],
                attrs |-> [relationship |-> "shared_software", value |-> G[i].key]]]

HashPrefixLen == 16

\* file_hash[:16] + '...': TypeError when the hash is not a string.
hash_value(h) ==
    IF h.t # "str" THEN Raise
    ELSE Str(SubSeq(h.s, 1, IF Len(h.s) < HashPrefixLen THEN Len(h.s) ELSE HashPrefixLen)
             \o <<".", ".", ".">>)

\* _correlate_hashes
correlate_hashes(list) ==
    LET map == BuildMap(Items(list, [i \in 1..Len(list) |-> hash_keys(list[i])]), <<>>)
        G == IF IsRaise(map) THEN <<>> ELSE Groups(map.v)
    IN IF IsRaise(map) THEN <<Raise>>
       ELSE [i \in 1..Len(G) |->
               IF IsRaise(hash_value(G[i].key)) THEN Raise
               ELSE [t |-> "emit", rel |-> [type |-> "duplicate_files", value |-> hash_value(G[i].key),
                              files |-> G[i].files, strength |-> "exact"],
                     attrs |-> [relationship |-> "duplicate", hash |-> G[i].key]]]

LatitudeKey == <<"l", "a", "t", "i", "t", "u", "d", "e">>
LongitudeKey == <<"l", "o", "n", "g", "i", "t", "u", "d", "e">>

\* _correlate_gps, lines 145-157, for one record: Raise, None (no entry
\* appended) or the entry [file, lat, lon].
gps_entry(md, idx) ==
    LET name == file_name(md, idx)
        img_meta == Get(Meta(md), "exif", EmptyDict)
        gps == Get(Get(img_meta, "gps", EmptyDict), "coordinates", None)
    IN IF IsRaise(name) \/ IsRaise(gps) THEN Raise
       ELSE IF ~Truthy(gps) THEN None
       ELSE IF gps.t = "dict"
         THEN IF "latitude" \in DOMAIN gps.d /\ "longitude" \in DOMAIN gps.d
              THEN [t |-> "entry", file |-> name,
                    lat |-> gps.d["latitude"], lon |-> gps.d["longitude"]]
              ELSE None
       ELSE IF gps.t = "str"
         THEN IF Contains(gps.s, LatitudeKey) /\ Contains(gps.s, LongitudeKey)
              THEN Raise ELSE None
       ELSE Raise

\* The entries that are not None, in order.
RECURSIVE Compact(_)
Compact(q) ==
    IF q = <<>> THEN <<>>
    ELSE (IF Head(q).t = "none" THEN <<>> ELSE <<Head(q)>>) \o Compact(Tail(q))

\* f"{x:.6f}" of a coordinate in units of 10^-4 degree.
FormatCoord(n) ==
    (IF n < 0 THEN <<"-">> ELSE <<>>) \o Digits(Abs(n) \div DegreeUnits) \o <<".">>
    \o Pad(Abs(n) % DegreeUnits, 4) \o <<"0", "0">>

ToleranceKm == FDiv(FInt(1), FInt(10))
HighStrengthKm == FDiv(FInt(1), FInt(100))

\* _correlate_gps, lines 160-177: the pairs (i, j), i < j, from pair (i, j) on.
\* lines 163-177: what the pair (a, b) at the computed distance emits.
gps_pair(a, b, distance, tolerance_km) ==
    IF IsRaise(distance) THEN <<Raise>>
    ELSE IF FLeq(distance, tolerance_km)
      THEN <<[t |-> "emit", rel |-> [type |-> "shared_location",
                       value |-> Str(<<"(">> \o FormatCoord(a.lat.n) \o <<",", " ">>
                                     \o FormatCoord(a.lon.n) \o <<")">>),
                       files |-> <<a.file, b.file>>,
                       distance_km |-> RoundMetres(distance),
                       strength |-> IF FLess(distance, HighStrengthKm)
                                    THEN "high" ELSE "medium"],
              attrs |-> [relationship |-> "shared_location", distance |-> distance]]>>
    ELSE <<>>

RECURSIVE gps_pairs(_, _, _, _)
gps_pairs(data, i, j, tolerance_km) ==
    IF i > Len(data) THEN <<>>
    ELSE IF j > Len(data) THEN gps_pairs(data, i + 1, i + 2, tolerance_km)
    ELSE gps_pair(data[i], data[j],
                  calculate_distance(data[i].lat, data[i].lon, data[j].lat, data[j].lon),
                  tolerance_km)
         \o gps_pairs(data, i, j + 1, tolerance_km)

\* _correlate_gps(tolerance_km)
correlate_gps(list, tolerance_km) ==
    LET entries == [i \in 1..Len(list) |-> gps_entry(list[i], i - 1)]
    IN IF \E i \in 1..Len(list) : IsRaise(entries[i]) THEN <<Raise>>
       ELSE gps_pairs(Compact(entries), 1, 2, tolerance_km)

ToleranceHours == 24

\* _correlate_timestamps, lines 192-207: the timestamp strings collected for
\* one record (created, exif datetime_original, document created), or Raise.
timestamp_strings(md) ==
    LET ts == Get(md, "timestamps", EmptyDict)
        exif_dates == Get(Get(Meta(md), "exif", EmptyDict), "dates", EmptyDict)
        doc == Get(Meta(md), "document", EmptyDict)
        c == <<Get(ts, "created", None), Get(exif_dates, "datetime_original", None),
               Get(doc, "created", None)>>
    IN IF \E i \in 1..3 : IsRaise(c[i]) THEN Raise
       ELSE List(Compact([i \in 1..3 |-> IF Truthy(c[i]) THEN c[i] ELSE None]))

\* lines 209-218: try: dt = parse(ts_str); append  except: pass
RECURSIVE parsed_observations(_, _)
parsed_observations(name, strs) ==
    IF strs = <<>> THEN <<>>
    ELSE (IF IsRaise(date_parse(Head(strs))) THEN <<>>
          ELSE <<[file |-> name, datetime |-> date_parse(Head(strs)),
                  timestamp_str |-> Head(strs)]>>)
         \o parsed_observations(name, Tail(strs))

\* timestamp_data after the first loop, from record i on, or Raise.
RECURSIVE timestamp_data(_, _)
timestamp_data(list, i) ==
    IF i > Len(list) THEN List(<<>>)
    ELSE LET name == file_name(list[i], i - 1)
             strs == timestamp_strings(list[i])
             rest == timestamp_data(list, i + 1)
         IN IF IsRaise(name) \/ IsRaise(strs) \/ IsRaise(rest) THEN Raise
            ELSE List(parsed_observations(name, strs.v) \o rest.v)

\* _correlate_timestamps, lines 221-239: the pairs (i, j), i < j, from pair
\* (i, j) on.  A time difference is kept in seconds.
RECURSIVE timestamp_pairs(_, _, _, _)
timestamp_pairs(data, i, j, tolerance_hours) ==
    IF i > Len(data) THEN <<>>
    ELSE IF j > Len(data) THEN timestamp_pairs(data, i + 1, i + 2, tolerance_hours)
    ELSE IF data[i].file = data[j].file THEN timestamp_pairs(data, i, j + 1, tolerance_hours)
    ELSE LET delta == dt_sub(data[i].datetime, data[j].datetime)
         IN IF IsRaise(delta) THEN <<Raise>>
            ELSE (IF Abs(delta.n) <= tolerance_hours * 3600
                  THEN <<[t |-> "emit", rel |-> [type |-> "similar_timestamp",
                                   files |-> <<data[i].file, data[j].file>>,
                                   time_diff_hours |-> RoundHalfEven(Abs(delta.n) * 100, 3600),
                                   strength |-> IF Abs(delta.n) < 3600
                                                THEN "high" ELSE "medium"],
                          attrs |-> [relationship |-> "similar_timestamp",
                                     time_diff |-> [t |-> "hours", secs |-> Abs(delta.n)]]]>>
                  ELSE <<>>)
                 \o timestamp_pairs(data, i, j + 1, tolerance_hours)

\* _correlate_timestamps(tolerance_hours)
correlate_timestamps(list, tolerance_hours) ==
    LET data == timestamp_data(list, 1)
    IN IF IsRaise(data) THEN <<Raise>> ELSE timestamp_pairs(data.v, 1, 2, tolerance_hours)

\* The emissions up to the first Raise, and whether there is one.
RECURSIVE UntilRaise(_)
UntilRaise(ems) ==
    IF ems = <<>> \/ IsRaise(Head(ems)) THEN <<>>
    ELSE <<Head(ems)>> \o UntilRaise(Tail(ems))

HasRaise(ems) == \E i \in 1..Len(ems) : ems[i].t = "raise"

\* The six correlators in the order correlate() calls them, lines 43-48, the
\* two pairwise ones with the default value of their tolerance parameter.
all_emissions(list, seed) ==
    LET a == correlate_authors(list, seed)
        d == correlate_devices(list)
        g == correlate_gps(list, ToleranceKm)
        ts == correlate_timestamps(list, ToleranceHours)
        sw == correlate_software(list, seed)
        h == correlate_hashes(list)
    IN a \o d \o g \o ts \o sw \o h

\* correlate(), lines 38-40: add_node(file_name, **metadata) for the records
\* from i on; networkx raises for the node None (ValueError) and for an
\* unhashable node (TypeError).  [g, raised].
RECURSIVE add_nodes(_, _, _)
add_nodes(g, list, i) ==
    IF i > Len(list) THEN [g |-> g, raised |-> FALSE]
    ELSE LET name == file_name(list[i], i - 1)
         IN IF IsRaise(name) \/ name.t \in {"none", "dict"}
            THEN [g |-> g, raised |-> TRUE]
            ELSE add_nodes(add_node(g, name), list, i + 1)

\* self.relationships.append(rel) and the add_edge calls, one emission
\* after the other.
RECURSIVE apply_emissions(_, _, _)
apply_emissions(rels, g, ems) ==
    IF ems = <<>> THEN [rels |-> rels, g |-> g]
    ELSE apply_emissions(Append(rels, Head(ems).rel),
                         add_clique(g, Head(ems).rel.files, 1, 2, Head(ems).attrs),
                         Tail(ems))

MostConnectedLimit == 5

\* A sort by degree that puts the later of two nodes of equal degree first.
RECURSIVE sorted_nodes_last(_, _)
sorted_nodes_last(g, nodes) ==
    IF nodes = <<>> THEN <<>>
    ELSE LET best == CHOOSE i \in 1..Len(nodes) :
                       /\ \A j \in 1..Len(nodes) : degree(g, nodes[j]) <= degree(g, nodes[i])
                       /\ \A j \in (i + 1)..Len(nodes) : degree(g, nodes[j]) < degree(g, nodes[i])
         IN <<nodes[best]>>
            \o sorted_nodes_last(g, SubSeq(nodes, 1, best - 1)
                                     \o SubSeq(nodes, best + 1, Len(nodes)))

\* sorted(degree_dict.items(), key=lambda x: x[1], reverse=True): a stable
\* sort, so nodes of equal degree keep the order of degree_dict.
RECURSIVE sorted_nodes(_, _)
sorted_nodes(g, nodes) ==
    IF nodes = <<>> THEN <<>>
    ELSE LET best == CHOOSE i \in 1..Len(nodes) :
                       /\ \A j \in 1..Len(nodes) : degree(g, nodes[j]) <= degree(g, nodes[i])
                       /\ \A j \in 1..(i - 1) : degree(g, nodes[j]) < degree(g, nodes[i])
         IN <<nodes[best]>>
            \o sorted_nodes(g, SubSeq(nodes, 1, best - 1) \o SubSeq(nodes, best + 1, Len(nodes)))

\* The nodes of at most one connection.
RECURSIVE isolated_nodes_low(_, _)
isolated_nodes_low(g, nodes) ==
    IF nodes = <<>> THEN <<>>
    ELSE (IF degree(g, Head(nodes)) <= 1 THEN <<Head(nodes)>> ELSE <<>>)
         \o isolated_nodes_low(g, Tail(nodes))

RECURSIVE isolated_nodes(_, _)
isolated_nodes(g, nodes) ==
    IF nodes = <<>> THEN <<>>
    ELSE (IF degree(g, Head(nodes)) = 0 THEN <<Head(nodes)>> ELSE <<>>)
         \o isolated_nodes(g, Tail(nodes))

\* MetadataCorrelator._build_summary
correlation_summary(rels, g) ==
    LET types == {rels[i].type : i \in 1..Len(rels)}
        sorted == sorted_nodes(g, g.nodes)
        top == SubSeq(sorted, 1, IF Len(sorted) < MostConnectedLimit
                                 THEN Len(sorted) ELSE MostConnectedLimit)
    IN [relationship_types |->
          [ty \in types |-> Cardinality({i \in 1..Len(rels) : rels[i].type = ty})],
        most_connected_files |->
          [i \in 1..Len(top) |-> [file |-> top[i], connections |-> degree(g, top[i])]],
        isolated_files |-> isolated_nodes(g, g.nodes)]

NoResult == [status |-> "none"]

\* MetadataCorrelator.correlate on an engine whose fields are rels and g:
\* the fields after the call, and what the call returned.  The returned
\* 'relationships' and 'graph' are the engine's own list and graph.
\* lines 51-59: the outcome once the correlators have run, done the fields
\* they left and raised whether one of them raised.
correlate_outcome(list, raised, done) ==
    IF raised
    THEN [relationships |-> done.rels, graph |-> done.g, result |-> [status |-> "raised"]]
    ELSE [relationships |-> done.rels, graph |-> done.g,
          result |-> [status |-> "returned",
                      total_files |-> Len(list),
                      total_relationships |-> Len(done.rels),
                      summary |-> correlation_summary(done.rels, done.g)]]

\* lines 37-48: n the outcome of the add_node loop, ems what the six
\* correlators emit.
correlate_steps(list, rels, n, ems) ==
    IF n.raised
    THEN [relationships |-> rels, graph |-> n.g, result |-> [status |-> "raised"]]
    ELSE correlate_outcome(list, HasRaise(ems), apply_emissions(rels, n.g, UntilRaise(ems)))

correlate(list, seed, rels, g) ==
    correlate_steps(list, rels, add_nodes(g, list, 1), all_emissions(list, seed))

\* ------------------------------------------------------- anomaly detection
\* What a check does is the sequence of the anomalies it appends to
\* self.anomalies, with Raise at the point where it raises.  CutAtRaise keeps
\* what was appended before the first Raise.
RECURSIVE CutAtRaise(_)
CutAtRaise(steps) ==
    IF steps = <<>> \/ IsRaise(Head(steps)) THEN <<>>
    ELSE <<Head(steps)>> \o CutAtRaise(Tail(steps))

StepsRaise(steps) == \E i \in 1..Len(steps) : IsRaise(steps[i])

DiscrepancyDays == 365

\* AnomalyDetector._check_timestamp_anomalies: everything after line 65 runs
\* inside try / except Exception, so the check never raises; an exception
\* ends it, keeping the anomalies appended before.
check_timestamp_anomalies(name, md, now) ==
    LET timestamps == Get(md, "timestamps", EmptyDict)
        cv == Get(timestamps, "created", None)
        mv == Get(timestamps, "modified", None)
        created == IF IsRaise(cv) THEN Raise
                   ELSE IF Truthy(cv) THEN date_parse(cv) ELSE None
        modified == IF IsRaise(mv) THEN Raise
                    ELSE IF Truthy(mv) THEN date_parse(mv) ELSE None
        parse == IF IsRaise(created) \/ IsRaise(modified) THEN <<Raise>> ELSE <<>>
        inconsistency ==
            IF created.t = "datetime" /\ modified.t = "datetime"
            THEN IF IsRaise(dt_less(modified, created)) THEN <<Raise>>
                 ELSE IF dt_less(modified, created).n = 1
                   THEN <<[file |-> name, type |-> "timestamp_inconsistency",
                           severity |-> "high",
                           description |-> "Modified date is before created date",
                           details |-> [created |-> created, modified |-> modified]]>>
                 ELSE <<>>
            ELSE <<>>
        future_created ==
            IF created.t = "datetime"
            THEN IF IsRaise(dt_less(now, created)) THEN <<Raise>>
                 ELSE IF dt_less(now, created).n = 1
                   THEN <<[file |-> name, type |-> "future_timestamp",
                           severity |-> "high",
                           description |-> "Created date is in the future",
                           details |-> [created |-> created]]>>
                 ELSE <<>>
            ELSE <<>>
        future_modified ==
            IF modified.t = "datetime"
            THEN IF IsRaise(dt_less(now, modified)) THEN <<Raise>>
                 ELSE IF dt_less(now, modified).n = 1
                   THEN <<[file |-> name, type |-> "future_timestamp",
                           severity |-> "high",
                           description |-> "Modified date is in the future",
                           details |-> [modified |-> modified]]>>
                 ELSE <<>>
            ELSE <<>>
        exif_dates == Get(Get(Meta(md), "exif", EmptyDict), "dates", EmptyDict)
        ev == Get(exif_dates, "datetime_original", None)
        exif_date == IF IsRaise(ev) THEN Raise
                     ELSE IF Truthy(ev) THEN date_parse(ev) ELSE None
        discrepancy ==
            IF IsRaise(exif_date) THEN <<Raise>>
            ELSE IF exif_date.t = "datetime" /\ created.t = "datetime"
            THEN IF IsRaise(dt_sub(exif_date, created)) THEN <<Raise>>
                 ELSE IF Abs(td_days(dt_sub(exif_date, created).n)) > DiscrepancyDays
                   THEN <<[file |-> name, type |-> "timestamp_discrepancy",
                           severity |-> "medium",
                           description |-> "EXIF date differs significantly from file system date",
                           details |-> [exif_date |-> exif_date, file_created |-> created,
                                        difference_days |->
                                          Abs(td_days(dt_sub(exif_date, created).n))]]>>
                 ELSE <<>>
            ELSE <<>>
    IN CutAtRaise(parse \o inconsistency \o future_created \o future_modified \o discrepancy)

\* SOFTWARE_RELEASE_DATES, in the order of the dict.
SOFTWARE_RELEASE_DATES ==
    <<[key |-> <<"p","h","o","t","o","s","h","o","p">>, name |-> "Adobe Photoshop",
       first_release |-> 1990],
      [key |-> <<"l","i","g","h","t","r","o","o","m">>, name |-> "Adobe Lightroom",
       first_release |-> 2007],
      [key |-> <<"g","i","m","p">>, name |-> "GIMP", first_release |-> 1996],
      [key |-> <<"w","o","r","d">>, name |-> "Microsoft Word", first_release |-> 1983],
      [key |-> <<"e","x","c","e","l">>, name |-> "Microsoft Excel",
       first_release |-> 1985]>>

\* The known-vendor substrings of line 163.
KnownVendors ==
    {<<"m","i","c","r","o","s","o","f","t">>, <<"a","d","o","b","e">>,
     <<"l","i","b","r","e">>}

\* A table walk that also flags a file of the release year itself.
RECURSIVE release_anomalies_upto(_, _, _, _)
release_anomalies_upto(name, software, file_date, k) ==
    IF k > Len(SOFTWARE_RELEASE_DATES) THEN <<>>
    ELSE LET info == SOFTWARE_RELEASE_DATES[k]
         IN (IF Contains(str_lower(software.s), info.key)
                /\ file_date.year <= info.first_release
             THEN <<[file |-> name, type |-> "impossible_software_date",
                     severity |-> "high",
                     description |-> info.name,
                     details |-> [software |-> software, file_date |-> file_date,
                                  software_release |-> info.first_release]]>>
             ELSE <<>>)
            \o release_anomalies_upto(name, software, file_date, k + 1)

\* lines 139-152: the anomalies of the table entries from k on.
RECURSIVE release_anomalies(_, _, _, _)
release_anomalies(name, software, file_date, k) ==
    IF k > Len(SOFTWARE_RELEASE_DATES) THEN <<>>
    ELSE LET info == SOFTWARE_RELEASE_DATES[k]
         IN (IF Contains(str_lower(software.s), info.key)
                /\ file_date.year < info.first_release
             THEN <<[file |-> name, type |-> "impossible_software_date",
                     severity |-> "high",
                     description |-> info.name,
                     details |-> [software |-> software, file_date |-> file_date,
                                  software_release |-> info.first_release]]>>
             ELSE <<>>)
            \o release_anomalies(name, software, file_date, k + 1)

\* doc.get(k, '') without the lower-casing.
LowerOrRaw(d, k) ==
    LET v == Get(d, k, Str(<<>>))
    IN IF v.t = "str" THEN v ELSE Raise

\* doc.get(k, '').lower(): AttributeError when the value is not a string.
LowerOr(d, k) ==
    LET v == Get(d, k, Str(<<>>))
    IN IF v.t = "str" THEN Str(str_lower(v.s)) ELSE Raise

\* AnomalyDetector._check_software_anomalies
check_software_anomalies(name, md) ==
    LET img_meta == Get(Meta(md), "exif", EmptyDict)
        software == Get(Get(img_meta, "software", EmptyDict), "software", Str(<<>>))
        exif_dates == Get(img_meta, "dates", EmptyDict)
        dv == Get(exif_dates, "datetime_original", None)
        image ==
            IF IsRaise(software) THEN <<Raise>>
            ELSE IF ~Truthy(software) THEN <<>>
            ELSE IF IsRaise(dv) THEN <<Raise>>
            ELSE IF ~Truthy(dv) THEN <<>>
            \* try: ... except: pass
            ELSE IF IsRaise(date_parse(dv)) \/ software.t # "str" THEN <<>>
            ELSE release_anomalies(name, software, date_parse(dv), 1)
        doc == Get(Meta(md), "document", EmptyDict)
        creator == LowerOr(doc, "creator")
        producer == IF IsRaise(creator) THEN Raise ELSE LowerOr(doc, "producer")
        document ==
            IF IsRaise(creator) \/ IsRaise(producer) THEN <<Raise>>
            ELSE IF Truthy(creator) /\ Truthy(producer) /\ creator # producer
                    /\ ((~ \E x \in KnownVendors : Contains(creator.s, x))
                        \/ (~ \E x \in KnownVendors : Contains(producer.s, x)))
              THEN <<[file |-> name, type |-> "software_inconsistency",
                      severity |-> "low",
                      description |-> "Document shows different creation and production software",
                      details |-> [creator |-> creator, producer |-> producer]]>>
            ELSE <<>>
    IN image \o document

\* Comparisons of a coordinate (in units of 10^-4 degree) with float
\* literals: TypeError when the value is not a number.
LatMax == 90 * DegreeUnits
LonMax == 180 * DegreeUnits
NullIsland == DegreeUnits \div 10

\* A range test that looks at the latitude only.
InRangeLatitude(lat, lon) ==
    IF lat.t # "num" THEN Raise
    ELSE IF 0 - LatMax <= lat.n /\ lat.n <= LatMax THEN Num(1) ELSE Num(0)

\* -90 <= lat <= 90 and -180 <= lon <= 180
InRange(lat, lon) ==
    IF lat.t # "num" THEN Raise
    ELSE IF ~(0 - LatMax <= lat.n /\ lat.n <= LatMax) THEN Num(0)
    ELSE IF lon.t # "num" THEN Raise
    ELSE IF 0 - LonMax <= lon.n /\ lon.n <= LonMax THEN Num(1) ELSE Num(0)

\* A null-island test that compares with (0, 0) itself.
NearNullExact(lat, lon) ==
    IF lat.t # "num" THEN Raise
    ELSE IF lat.n # 0 THEN Num(0)
    ELSE IF lon.t # "num" THEN Raise
    ELSE IF lon.n = 0 THEN Num(1) ELSE Num(0)

\* abs(lat) < 0.1 and abs(lon) < 0.1
NearNull(lat, lon) ==
    IF lat.t # "num" THEN Raise
    ELSE IF ~(Abs(lat.n) < NullIsland) THEN Num(0)
    ELSE IF lon.t # "num" THEN Raise
    ELSE IF Abs(lon.n) < NullIsland THEN Num(1) ELSE Num(0)

\* AnomalyDetector._check_gps_anomalies
check_gps_anomalies(name, md) ==
    LET img_meta == Get(Meta(md), "exif", EmptyDict)
        gps == Get(img_meta, "gps", EmptyDict)
        cv == Get(gps, "coordinates", None)
        coords == Item(gps, "coordinates")
        lat == Get(coords, "latitude", Num(0))
        lon == Get(coords, "longitude", Num(0))
        invalid ==
            IF IsRaise(lat) \/ IsRaise(lon) \/ IsRaise(InRange(lat, lon)) THEN <<Raise>>
            ELSE IF InRange(lat, lon).n = 0
              THEN <<[file |-> name, type |-> "invalid_gps", severity |-> "high",
                      description |-> "GPS coordinates are out of valid range",
                      details |-> [latitude |-> lat, longitude |-> lon]]>>
            ELSE <<>>
        suspicious ==
            IF IsRaise(NearNull(lat, lon)) THEN <<Raise>>
            ELSE IF NearNull(lat, lon).n = 1
              THEN <<[file |-> name, type |-> "suspicious_gps", severity |-> "medium",
                      description |-> "GPS coordinates near (0,0) - possible default value",
                      details |-> [latitude |-> lat, longitude |-> lon]]>>
            ELSE <<>>
        \* lines 207-215: exif_dates.get(...) and gps.get('timestamp')
        exif_dates == Get(img_meta, "dates", EmptyDict)
        gps_time == IF IsRaise(Get(exif_dates, "datetime_original", None)) THEN <<Raise>>
                    ELSE <<>>
    IN IF IsRaise(cv) THEN <<Raise>>
       ELSE IF ~Truthy(cv) THEN <<>>
       ELSE invalid \o suspicious \o gps_time

\* A type test that any string passes.
IsTextAny(v, chars) == v.t = "str"

IsText(v, chars) == v.t = "str" /\ v.s = chars

ImageType == <<"i", "m", "a", "g", "e">>
DocumentType == <<"d", "o", "c", "u", "m", "e", "n", "t">>
ArchiveType == <<"a", "r", "c", "h", "i", "v", "e">>

\* AnomalyDetector._check_metadata_tampering
check_metadata_tampering(name, md) ==
    LET meta_content == Meta(md)
        file_type == Get(Get(md, "file_info", EmptyDict), "type", None)
        exif == Get(meta_content, "exif", None)
        img == Get(meta_content, "image", None)
        image ==
            IF ~IsText(file_type, ImageType) THEN <<>>
            ELSE IF IsRaise(exif) THEN <<Raise>>
            ELSE IF ~Truthy(exif) /\ ~Truthy(img)
              THEN <<[file |-> name, type |-> "missing_metadata", severity |-> "medium",
                      description |-> "Image file has no EXIF metadata - may have been stripped",
                      details |-> EmptyDict]>>
            ELSE <<>>
        doc == Get(meta_content, "document", EmptyDict)
        da == Get(doc, "author", None)
        document ==
            IF ~IsText(file_type, DocumentType) THEN <<>>
            ELSE IF IsRaise(da) THEN <<Raise>>
            ELSE IF ~Truthy(da) /\ ~Truthy(Get(doc, "creator", None))
                    /\ ~Truthy(Get(doc, "producer", None))
              THEN <<[file |-> name, type |-> "missing_metadata", severity |-> "low",
                      description |-> "Document has no author/creator metadata",
                      details |-> EmptyDict]>>
            ELSE <<>>
        \* lines 248-258: timestamps.get('created') and timestamps.get('modified')
        timestamps == Get(md, "timestamps", EmptyDict)
        history == IF IsRaise(Get(timestamps, "created", None)) THEN <<Raise>> ELSE <<>>
    IN IF IsRaise(file_type) THEN <<Raise>> ELSE image \o document \o history

SmallImageBytes == 100

\* AnomalyDetector._check_file_anomalies
check_file_anomalies(name, md) ==
    LET file_info == Get(md, "file_info", EmptyDict)
        size == Get(file_info, "size", Num(0))
        file_type == Get(file_info, "type", None)
        small ==
            IF ~IsText(file_type, ImageType) THEN <<>>
            ELSE IF size.t # "num" THEN <<Raise>>
            ELSE IF size.n < SmallImageBytes
              THEN <<[file |-> name, type |-> "suspicious_file_size", severity |-> "low",
                      description |-> "Image file is suspiciously small",
                      details |-> [size |-> size]]>>
            ELSE <<>>
        archive_meta == Get(Meta(md), "archive", EmptyDict)
        file_count == Get(archive_meta, "file_count", Num(0))
        archive ==
            IF ~IsText(file_type, ArchiveType) THEN <<>>
            ELSE IF IsRaise(file_count) THEN <<Raise>>
            ELSE IF file_count.t = "num" /\ file_count.n = 0
              THEN <<[file |-> name, type |-> "empty_archive", severity |-> "low",
                      description |-> "Archive contains no files",
                      details |-> EmptyDict]>>
            ELSE <<>>
    IN IF IsRaise(size) THEN <<Raise>> ELSE small \o archive

\* analyze(), lines 43-51: the steps of the records from i on.
RECURSIVE analyze_steps(_, _, _)
analyze_steps(list, i, now) ==
    IF i > Len(list) THEN <<>>
    ELSE LET name == file_name(list[i], i - 1)
         IN IF IsRaise(name) THEN <<Raise>>
            ELSE check_timestamp_anomalies(name, list[i], now)
                 \o check_software_anomalies(name, list[i])
                 \o check_gps_anomalies(name, list[i])
                 \o check_metadata_tampering(name, list[i])
                 \o check_file_anomalies(name, list[i])
                 \o analyze_steps(list, i + 1, now)

\* A summary that counts, for each severity, the files with an anomaly of it.
anomaly_summary_files(anoms) ==
    LET n(sev) == Cardinality({anoms[i].file : i \in {j \in 1..Len(anoms) :
                                                         anoms[j].severity = sev}})
        types == {anoms[i].type : i \in 1..Len(anoms)}
    IN [by_severity |-> [high |-> n("high"), medium |-> n("medium"), low |-> n("low")],
        by_type |-> [ty \in types |-> Cardinality({i \in 1..Len(anoms) : anoms[i].type = ty})],
        affected_files |-> {anoms[i].file : i \in 1..Len(anoms)}]

\* AnomalyDetector._build_summary; affected_files is list(set(...)), a list
\* in no particular order, kept as the set.
anomaly_summary(anoms) ==
    LET n(sev) == Cardinality({i \in 1..Len(anoms) : anoms[i].severity = sev})
        types == {anoms[i].type : i \in 1..Len(anoms)}
    IN [by_severity |-> [high |-> n("high"), medium |-> n("medium"), low |-> n("low")],
        by_type |-> [ty \in types |-> Cardinality({i \in 1..Len(anoms) : anoms[i].type = ty})],
        affected_files |-> {anoms[i].file : i \in 1..Len(anoms)}]

\* AnomalyDetector.analyze on a detector whose field self.anomalies is
\* anoms, at wall-clock time now: the field after the call and what the call
\* returned.  The returned 'anomalies' is the detector's own list.
analyze_outcome(list, anoms, steps) ==
    LET after == anoms \o CutAtRaise(steps)
    IN IF StepsRaise(steps)
       THEN [anomalies |-> after, result |-> [status |-> "raised"]]
       ELSE [anomalies |-> after,
             result |-> [status |-> "returned",
                         total_files_analyzed |-> Len(list),
                         total_anomalies |-> Len(after),
                         summary |-> anomaly_summary(after)]]

analyze(list, anoms, now) == analyze_outcome(list, anoms, analyze_steps(list, 1, now))

\* ---------------------------------------------------------------- records
\* The records of the extractors (create_metadata_template and the update()
\* calls of each extractor): file_info {name, size, type, hash_sha256},
\* timestamps {created, modified} and the metadata blocks.  A value Absent
\* leaves the key out of the dict.
Absent == [t |-> "absent"]

MkDict(pairs) ==
    LET present == {i \in 1..Len(pairs) : pairs[i][2].t # "absent"}
    IN Dict([k \in {pairs[i][1] : i \in present} |->
               pairs[CHOOSE i \in present : pairs[i][1] = k][2]])

Record(file_info, timestamps, metadata) ==
    MkDict(<< <<"file_info", file_info>>, <<"timestamps", timestamps>>,
              <<"metadata", metadata>> >>)

FileInfo(name, type, size, sha) ==
    MkDict(<< <<"name", name>>, <<"type", type>>, <<"size", size>>,
              <<"hash_sha256", sha>> >>)

Timestamps(created, modified) ==
    MkDict(<< <<"created", created>>, <<"modified", modified>> >>)

\* parse_gps_coordinates: {'latitude': ..., 'longitude': ...}
Coordinates(lat, lon) == MkDict(<< <<"latitude", lat>>, <<"longitude", lon>> >>)

\* ImageExtractor._process_exif: the exif block of an image, here its gps
\* coordinates, its software string and its datetime_original.
Exif(coords, software, original) ==
    MkDict(<< <<"gps", MkDict(<< <<"coordinates", coords>> >>)>>,
              <<"software", MkDict(<< <<"software", software>> >>)>>,
              <<"dates", MkDict(<< <<"datetime_original", original>> >>)>> >>)

\* The lists of at most MaxRecords records of a family F, each file
\* extracted once.
Lists(F) ==
    {l \in UNION {[1..n -> F] : n \in 0..MaxRecords} :
        \A i, j \in 1..Len(l) : i # j => l[i] # l[j]}

\* The orders in which the sets of one process can iterate over their keys.
Orders(S) ==
    {q \in [1..Cardinality(S) -> S] : \A i, j \in 1..Cardinality(S) : i # j => q[i] # q[j]}

StrSet(cands) == {cands[i] : i \in {j \in 1..Len(cands) : cands[j].t = "str"}}

AllKeys(list) ==
    UNION {StrSet(author_candidates(list[i])) \cup StrSet(software_candidates(list[i]))
           : i \in 1..Len(list)}

\* datetime.now() at clock reading c: naive local time.
NowAt(c) == date_parse(Str(isoformat(2026, 11, 1 + c, 0, 0, 0, <<>>)))

MaxClock == 1

\* ------------------------------------------------------------------ state
VARIABLES
    metadata_list,   \* the list handed to both constructors
    hashSeed,        \* the iteration order of string sets in this process
    relationships,   \* MetadataCorrelator.relationships
    graph,           \* MetadataCorrelator.graph
    corr_calls,      \* correlate() calls made on the correlator
    corr_result,     \* what the last correlate() call returned
    anomalies,       \* AnomalyDetector.anomalies
    anom_calls,      \* analyze() calls made on the detector
    anom_result,     \* what the last analyze() call returned
    now              \* the clock reading of the last analyze() call

vars == <<metadata_list, hashSeed, relationships, graph, corr_calls, corr_result,
          anomalies, anom_calls, anom_result, now>>

\* MetadataCorrelator(metadata_list) and AnomalyDetector(metadata_list), for
\* a list of the set L.
InitWith(L) ==
    /\ metadata_list \in L
    /\ hashSeed \in Orders(AllKeys(metadata_list))
    /\ relationships = <<>>
    /\ graph = EmptyGraph
    /\ corr_calls = 0
    /\ corr_result = NoResult
    /\ anomalies = <<>>
    /\ anom_calls = 0
    /\ anom_result = NoResult
    /\ now = 0

InitOn(F) == InitWith(Lists(F))

\* A correlator that consumes its input: the first record is popped off the
\* shared list once the passes have run.
CorrelateConsuming ==
    /\ corr_calls < MaxCalls
    /\ \E r \in {correlate(metadata_list, hashSeed, relationships, graph)} :
          /\ relationships' = r.relationships
          /\ graph' = r.graph
          /\ corr_result' = r.result
    /\ corr_calls' = corr_calls + 1
    /\ metadata_list' = IF metadata_list = <<>> THEN <<>> ELSE Tail(metadata_list)
    /\ UNCHANGED <<hashSeed, anomalies, anom_calls, anom_result, now>>

\* correlator.correlate()
Correlate ==
    /\ corr_calls < MaxCalls
    /\ \E r \in {correlate(metadata_list, hashSeed, relationships, graph)} :
          /\ relationships' = r.relationships
          /\ graph' = r.graph
          /\ corr_result' = r.result
    /\ corr_calls' = corr_calls + 1
    /\ UNCHANGED <<metadata_list, hashSeed, anomalies, anom_calls, anom_result, now>>

\* detector.analyze()
Analyze ==
    /\ anom_calls < MaxCalls
    /\ \E c \in 0..MaxClock :
         \E r \in {analyze(metadata_list, anomalies, NowAt(c))} :
            /\ anomalies' = r.anomalies
            /\ anom_result' = r.result
            /\ now' = c
    /\ anom_calls' = anom_calls + 1
    /\ UNCHANGED <<metadata_list, hashSeed, relationships, graph, corr_calls, corr_result>>

\* correlator = MetadataCorrelator(metadata_list)
NewCorrelator ==
    /\ corr_calls > 0
    /\ relationships' = <<>>
    /\ graph' = EmptyGraph
    /\ corr_calls' = 0
    /\ corr_result' = NoResult
    /\ UNCHANGED <<metadata_list, hashSeed, anomalies, anom_calls, anom_result, now>>

\* detector = AnomalyDetector(metadata_list)
NewDetector ==
    /\ anom_calls > 0
    /\ anomalies' = <<>>
    /\ anom_calls' = 0
    /\ anom_result' = NoResult
    /\ now' = 0
    /\ UNCHANGED <<metadata_list, hashSeed, relationships, graph, corr_calls, corr_result>>

Next == Correlate \/ Analyze \/ NewCorrelator \/ NewDetector

\* The tolerances are parameters of the two pairwise passes, not of the
\* constructor: the calls of a pass with its default tolerance and with the
\* negated one.
PassCalls ==
    {[pass |-> "gps", tolerance |-> ToleranceKm],
     [pass |-> "gps", tolerance |-> FNeg(ToleranceKm)],
     [pass |-> "timestamps", tolerance |-> ToleranceHours],
     [pass |-> "timestamps", tolerance |-> 0 - ToleranceHours]}

pass_emissions(list, call) ==
    IF call.pass = "gps" THEN correlate_gps(list, call.tolerance)
    ELSE correlate_timestamps(list, call.tolerance)

\* correlator._correlate_gps(tolerance_km) or
\* correlator._correlate_timestamps(tolerance_hours), on a new engine.
CorrelatePass ==
    /\ corr_calls = 0
    /\ corr_result = NoResult
    /\ \E call \in PassCalls :
         \E ems \in {pass_emissions(metadata_list, call)} :
            \E done \in {apply_emissions(relationships, graph, UntilRaise(ems))} :
               /\ relationships' = done.rels
               /\ graph' = done.g
               /\ corr_result' = [status |-> IF HasRaise(ems) THEN "pass_raised"
                                             ELSE "pass_returned",
                                  call |-> call]
    /\ UNCHANGED <<metadata_list, hashSeed, corr_calls, anomalies, anom_calls,
                   anom_result, now>>

NextPasses == Next \/ CorrelatePass

\* The correlator on its own.
NextCorrelator == Correlate \/ NewCorrelator

\* The detector on its own.
NextDetector == Analyze \/ NewDetector

\* ---------------------------------------------------------------- inputs
NameA == Str(<<"a">>)
NameB == Str(<<"b">>)
NameC == Str(<<"c">>)

Sixteen == <<"0","1","2","3","4","5","6","7","8","9","a","b","c","d","e","f">>
Hash1 == Str(Sixteen \o <<"1", "1">>)
Hash2 == Str(Sixteen \o <<"2", "2">>)
Hash3 == Str(<<"f", "f">> \o Sixteen)

Image == Str(ImageType)
Document == Str(DocumentType)
Archive == Str(ArchiveType)

Utc == <<"+", "0", "0", ":", "0", "0">>
Noon == Str(isoformat(2024, 1, 1, 12, 0, 0, <<>>))
NoonUtc == Str(isoformat(2024, 1, 1, 12, 0, 0, Utc))

Al == Str(<<"A", "l">>)

Space == <<" ">>
Wd == Str(<<"W", "d">>)
Pd == Str(<<"P", "d">>)

\* A mix of records: two images with one content hash and one capture time,
\* a document with the same hash whose created time carries a UTC offset, a
\* document whose creator is null, and an image whose exif block is null.
MixedRecords ==
    { Record(FileInfo(NameA, Image, Num(50), Hash1), Timestamps(Noon, Noon),
             EmptyDict),
      Record(FileInfo(NameB, Image, Num(5000), Hash1), Timestamps(Noon, Noon),
             MkDict(<< <<"exif", MkDict(<< <<"software", MkDict(<< <<"artist", Al>> >>)>> >>)>> >>)),
      Record(FileInfo(NameC, Document, Num(5000), Hash1), Timestamps(NoonUtc, NoonUtc),
             MkDict(<< <<"document", MkDict(<< <<"author", Al>> >>)>> >>)),
      Record(FileInfo(NameC, Document, Num(5000), Hash3), Timestamps(Noon, Noon),
             MkDict(<< <<"document", MkDict(<< <<"author", Al>>, <<"creator", None>> >>)>> >>)),
      Record(FileInfo(NameC, Image, Num(5000), Hash3), Timestamps(Noon, Noon),
             MkDict(<< <<"exif", None>> >>)) }

\* Records for the grouping correlators: an image and a document of one
\* display name and one content hash, the document's author being blank;
\* two documents with one creator and one producer, one with a blank author.
GroupRecords ==
    { Record(FileInfo(NameB, Image, Num(5000), Hash1), Timestamps(Noon, Noon),
             MkDict(<< <<"exif", MkDict(<< <<"software", MkDict(<< <<"artist", Al>> >>)>> >>)>> >>)),
      Record(FileInfo(NameB, Document, Num(5000), Hash1), Timestamps(Noon, Noon),
             MkDict(<< <<"document", MkDict(<< <<"author", Str(Space \o Space)>> >>)>> >>)),
      Record(FileInfo(NameA, Document, Num(5000), Hash2), Timestamps(Noon, Noon),
             MkDict(<< <<"document", MkDict(<< <<"creator", Wd>>, <<"producer", Pd>> >>)>> >>)),
      Record(FileInfo(NameC, Document, Num(5000), Hash3), Timestamps(Noon, Noon),
             MkDict(<< <<"document", MkDict(<< <<"author", Str(Space)>>, <<"creator", Wd>>,
                                               <<"producer", Pd>> >>)>> >>)) }

\* Images with GPS coordinates (in units of 10^-4 degree): two at one point,
\* one 7 m and one 37 m east of it, one 100.07 m north of it, one with a
\* latitude only, and one whose exif block is null.
Here == Coordinates(Num(488566), Num(23522))

GpsRecords ==
    { Record(FileInfo(NameA, Image, Num(5000), Hash1), Timestamps(Noon, Noon),
             MkDict(<< <<"exif", Exif(Here, Absent, Absent)>> >>)),
      Record(FileInfo(NameB, Image, Num(5000), Hash2), Timestamps(Noon, Noon),
             MkDict(<< <<"exif", Exif(Here, Absent, Absent)>> >>)),
      Record(FileInfo(NameC, Image, Num(5000), Hash3), Timestamps(Noon, Noon),
             MkDict(<< <<"exif", Exif(Coordinates(Num(488566), Num(23523)), Absent, Absent)>> >>)),
      Record(FileInfo(Str(<<"d">>), Image, Num(5000), Hash3), Timestamps(Noon, Noon),
             MkDict(<< <<"exif", Exif(Coordinates(Num(488566), Num(23527)), Absent, Absent)>> >>)),
      Record(FileInfo(Str(<<"e">>), Image, Num(5000), Hash3), Timestamps(Noon, Noon),
             MkDict(<< <<"exif", Exif(Coordinates(Num(488575), Num(23522)), Absent, Absent)>> >>)),
      Record(FileInfo(Str(<<"f">>), Image, Num(5000), Hash3), Timestamps(Noon, Noon),
             MkDict(<< <<"exif", Exif(Coordinates(Num(488566), Absent), Absent, Absent)>> >>)),
      Record(FileInfo(Str(<<"g">>), Image, Num(5000), Hash3), Timestamps(Noon, Noon),
             MkDict(<< <<"exif", None>> >>)) }

\* Images near (0, 0): one at (0.05, 0.05), one at (-0.05, -0.05); an image
\* at (48.8566, 2.3522) and an image without coordinates.
NullRecords ==
    { Record(FileInfo(NameA, Image, Num(5000), Hash1), Timestamps(Noon, Noon),
             MkDict(<< <<"exif", Exif(Coordinates(Num(500), Num(500)), Absent, Absent)>> >>)),
      Record(FileInfo(NameB, Image, Num(5000), Hash2), Timestamps(Noon, Noon),
             MkDict(<< <<"exif", Exif(Coordinates(Num(-500), Num(-500)), Absent, Absent)>> >>)),
      Record(FileInfo(NameC, Image, Num(5000), Hash3), Timestamps(Noon, Noon),
             MkDict(<< <<"exif", Exif(Here, Absent, Absent)>> >>)),
      Record(FileInfo(Str(<<"d">>), Image, Num(5000), Hash3), Timestamps(Noon, Noon),
             MkDict(<< <<"exif", Exif(Absent, Absent, Absent)>> >>)) }

\* Images by their timestamps: created in 2030 and modified in 2024; both in
\* 2030; both in 2030 with a UTC offset; both at noon of 2026-11-01; created
\* in 2030 with an unparsable modified; both in 2030 with an unparsable
\* datetime_original; both in 2024.
Later == Str(isoformat(2030, 1, 1, 0, 0, 0, <<>>))
LaterUtc == Str(isoformat(2030, 1, 1, 0, 0, 0, Utc))
Today == Str(isoformat(2026, 11, 1, 12, 0, 0, <<>>))
Malformed == Str(<<"n", "/", "a">>)

TimeRecords ==
    { Record(FileInfo(NameA, Image, Num(5000), Hash1), Timestamps(Later, Noon),
             MkDict(<< <<"exif", Exif(Absent, Absent, Absent)>> >>)),
      Record(FileInfo(NameB, Image, Num(5000), Hash1), Timestamps(Later, Later),
             MkDict(<< <<"exif", Exif(Absent, Absent, Absent)>> >>)),
      Record(FileInfo(NameC, Image, Num(5000), Hash1), Timestamps(LaterUtc, LaterUtc),
             MkDict(<< <<"exif", Exif(Absent, Absent, Absent)>> >>)),
      Record(FileInfo(Str(<<"d">>), Image, Num(5000), Hash1), Timestamps(Today, Today),
             MkDict(<< <<"exif", Exif(Absent, Absent, Absent)>> >>)),
      Record(FileInfo(Str(<<"e">>), Image, Num(5000), Hash1), Timestamps(Later, Malformed),
             MkDict(<< <<"exif", Exif(Absent, Absent, Absent)>> >>)),
      Record(FileInfo(Str(<<"f">>), Image, Num(5000), Hash1), Timestamps(Later, Later),
             MkDict(<< <<"exif", Exif(Absent, Absent, Malformed)>> >>)),
      Record(FileInfo(Str(<<"g">>), Image, Num(5000), Hash1), Timestamps(Noon, Noon),
             MkDict(<< <<"exif", Exif(Absent, Absent, Absent)>> >>)) }

\* Images by their EXIF software and datetime_original: four tool names and
\* 1985 (the release year of one, after that of another, before those of
\* two); Photoshop and 1985, an unparsable date, no date; no software and
\* 1985.
Photoshop == Str(<<"A","d","o","b","e"," ","P","h","o","t","o","s","h","o","p"," ","C","S">>)
Suite == Str(<<"W","o","r","d"," ","E","X","C","E","L"," ","P","h","o","t","o","S","h","o","p",
              " ","G","i","m","p">>)

SoftwareRecords ==
    { Record(FileInfo(NameA, Image, Num(5000), Hash1), Timestamps(Noon, Noon),
             MkDict(<< <<"exif", Exif(Absent, Suite, Str(isoformat(1985, 6, 1, 0, 0, 0, <<>>)))>> >>)),
      Record(FileInfo(NameC, Image, Num(5000), Hash1), Timestamps(Noon, Noon),
             MkDict(<< <<"exif", Exif(Absent, Photoshop, Str(isoformat(1985, 1, 1, 0, 0, 0, <<>>)))>> >>)),
      Record(FileInfo(Str(<<"d">>), Image, Num(5000), Hash1), Timestamps(Noon, Noon),
             MkDict(<< <<"exif", Exif(Absent, Absent, Str(isoformat(1985, 1, 1, 0, 0, 0, <<>>)))>> >>)),
      Record(FileInfo(Str(<<"e">>), Image, Num(5000), Hash1), Timestamps(Noon, Noon),
             MkDict(<< <<"exif", Exif(Absent, Photoshop, Malformed)>> >>)),
      Record(FileInfo(Str(<<"f">>), Image, Num(5000), Hash1), Timestamps(Noon, Noon),
             MkDict(<< <<"exif", Exif(Absent, Photoshop, Absent)>> >>)) }

\* ArchiveExtractor.extract: the archive block, left out when the archive
\* could not be read.
ArchiveBlock(file_count) ==
    MkDict(<< <<"archive", MkDict(<< <<"file_count", file_count>> >>)>> >>)

\* Archives with no file, with three files and without an archive block; a
\* 50-byte image and a document.
ArchiveRecords ==
    { Record(FileInfo(NameA, Archive, Num(5000), Hash1), Timestamps(Noon, Noon),
             ArchiveBlock(Num(0))),
      Record(FileInfo(NameB, Archive, Num(5000), Hash2), Timestamps(Noon, Noon),
             ArchiveBlock(Num(3))),
      Record(FileInfo(NameC, Archive, Num(5000), Hash3), Timestamps(Noon, Noon),
             EmptyDict),
      Record(FileInfo(Str(<<"d">>), Image, Num(50), Hash3), Timestamps(Noon, Noon),
             MkDict(<< <<"exif", Exif(Absent, Absent, Absent)>> >>)),
      Record(FileInfo(Str(<<"e">>), Document, Num(5000), Hash3), Timestamps(Noon, Noon),
             MkDict(<< <<"document", MkDict(<< <<"author", Al>> >>)>> >>)) }

\* Six documents created in six different months: a, b and c have one
\* content hash, e and f another, and a and d one author.
SummaryRecords ==
    { Record(FileInfo(NameA, Document, Num(5000), Hash1),
             Timestamps(Str(isoformat(2024, 1, 1, 12, 0, 0, <<>>)), Absent),
             MkDict(<< <<"document", MkDict(<< <<"author", Al>> >>)>> >>)),
      Record(FileInfo(NameB, Document, Num(5000), Hash1),
             Timestamps(Str(isoformat(2024, 2, 1, 12, 0, 0, <<>>)), Absent), EmptyDict),
      Record(FileInfo(NameC, Document, Num(5000), Hash1),
             Timestamps(Str(isoformat(2024, 3, 1, 12, 0, 0, <<>>)), Absent), EmptyDict),
      Record(FileInfo(Str(<<"d">>), Document, Num(5000), Hash3),
             Timestamps(Str(isoformat(2024, 4, 1, 12, 0, 0, <<>>)), Absent),
             MkDict(<< <<"document", MkDict(<< <<"author", Al>> >>)>> >>)),
      Record(FileInfo(Str(<<"e">>), Document, Num(5000), Hash2),
             Timestamps(Str(isoformat(2024, 5, 1, 12, 0, 0, <<>>)), Absent), EmptyDict),
      Record(FileInfo(Str(<<"f">>), Document, Num(5000), Hash2),
             Timestamps(Str(isoformat(2024, 6, 1, 12, 0, 0, <<>>)), Absent), EmptyDict) }

Init == InitOn(MixedRecords)

Spec == Init /\ [][Next]_vars

InitGroups == InitOn(GroupRecords)

SpecGroups == InitGroups /\ [][Next]_vars

SpecGps == InitOn(GpsRecords) /\ [][Next]_vars

SpecPasses == InitOn(GpsRecords) /\ [][NextPasses]_vars

SpecNull == InitOn(NullRecords) /\ [][Next]_vars

SpecTime == InitOn(TimeRecords) /\ [][Next]_vars

SpecSoftware == InitOn(SoftwareRecords) /\ [][Next]_vars

SpecArchive == InitOn(ArchiveRecords) /\ [][Next]_vars

\* The six documents in every order, and the shorter lists of them.
SpecSummary ==
    InitWith(Lists(SummaryRecords) \cup Orders(SummaryRecords)) /\ [][NextCorrelator]_vars

\* ---------------------------------------------------------------- claims
\* The list without its record i.
Without(list, i) == SubSeq(list, 1, i - 1) \o SubSeq(list, i + 1, Len(list))

\* What one call on a new engine, or a new detector, does with a list.
FirstCorrelate(list, seed) == correlate(list, seed, <<>>, EmptyGraph)
FirstAnalyze(list, c) == analyze(list, <<>>, NowAt(c))

Occurs(x, seq) == \E k \in 1..Len(seq) : seq[k] = x

\* C1: correlate() never raises: whatever the records of the list (absent or
\* null sub-blocks, timestamps with and without a UTC offset), every call
\* returns a result object.
C1_CorrelateNeverRaises == corr_result.status # "raised"

\* C2: analyze() never raises: whatever the records of the list (absent or
\* null sub-paths), every call returns a result object.
C2_AnalyzeNeverRaises == anom_result.status # "raised"

\* C3: record-level isolation: when one record of the list is malformed (a
\* call on it alone raises) and the other records alone are processed to a
\* result with anomalies, or relationships, in it, the call on the whole list
\* returns a result that holds every anomaly and every relationship of the
\* other records.
C3_RecordIsolation ==
    /\ anom_calls = 1 =>
         \A i \in 1..Len(metadata_list) :
            LET alone == FirstAnalyze(<<metadata_list[i]>>, now)
                rest == FirstAnalyze(Without(metadata_list, i), now)
            IN (/\ alone.result.status = "raised"
                /\ rest.result.status = "returned"
                /\ rest.anomalies # <<>>)
               => /\ anom_result.status = "returned"
                  /\ \A k \in 1..Len(rest.anomalies) : Occurs(rest.anomalies[k], anomalies)
    /\ corr_calls = 1 =>
         \A i \in 1..Len(metadata_list) :
            LET alone == FirstCorrelate(<<metadata_list[i]>>, hashSeed)
                rest == FirstCorrelate(Without(metadata_list, i), hashSeed)
            IN (/\ alone.result.status = "raised"
                /\ rest.result.status = "returned"
                /\ rest.relationships # <<>>)
               => /\ corr_result.status = "returned"
                  /\ \A k \in 1..Len(rest.relationships) :
                        Occurs(rest.relationships[k], relationships)

\* C4: correlate() is idempotent: the second call on the same list returns
\* the relationship list, the total_relationships and the graph edge set of
\* the first call.
C4_CorrelateIdempotent ==
    (corr_calls = 2 /\ corr_result.status = "returned") =>
       LET first == FirstCorrelate(metadata_list, hashSeed)
       IN /\ relationships = first.relationships
          /\ corr_result.total_relationships = first.result.total_relationships
          /\ graph.edges = first.graph.edges

\* C5: analyze() recomputes from scratch: after earlier calls, a call returns
\* the anomaly list and the total_anomalies that the records alone determine,
\* no anomaly of an earlier call carried over or counted again.
C5_AnalyzeFromScratch ==
    (anom_calls >= 1 /\ anom_result.status = "returned") =>
       LET fresh == FirstAnalyze(metadata_list, now)
       IN /\ anomalies = fresh.anomalies
          /\ anom_result.total_anomalies = Len(fresh.anomalies)

\* The sha256 of a record, and the records of a list that carry the hash h.
Sha(md) == Get(Get(md, "file_info", EmptyDict), "hash_sha256", None)
Carriers(list, h) == {i \in 1..Len(list) : Sha(list[i]) = h}
SharedHashes(list) ==
    {h \in {Sha(list[i]) : i \in 1..Len(list)} :
        h.t = "str" /\ h.s # <<>> /\ Cardinality(Carriers(list, h)) >= 2}
RECURSIVE NamesOf(_, _, _)
NamesOf(list, K, i) ==
    IF i > Len(list) THEN <<>>
    ELSE (IF i \in K THEN <<file_name(list[i], i - 1)>> ELSE <<>>) \o NamesOf(list, K, i + 1)
DuplicateOf(list, h) ==
    [type |-> "duplicate_files",
     value |-> Str(SubSeq(h.s, 1, 16) \o <<".", ".", ".">>),
     files |-> NamesOf(list, Carriers(list, h), 1),
     strength |-> "exact"]
OfType(rels, ty) == SelectSeq(rels, LAMBDA r : r.type = ty)

\* C6: duplicate grouping: for every sha256 carried by k >= 2 records of the
\* list, a correlate() call emits one duplicate_files relationship listing
\* the k records (strength exact, value the first 16 characters and '...'),
\* and it emits no other duplicate_files relationship.
C6_DuplicateGrouping ==
    corr_calls = 1 =>
       LET dup == OfType(relationships, "duplicate_files")
       IN /\ Len(dup) = Cardinality(SharedHashes(metadata_list))
          /\ \A h \in SharedHashes(metadata_list) : Occurs(DuplicateOf(metadata_list, h), dup)
          /\ \A k \in 1..Len(dup) :
                \E h \in SharedHashes(metadata_list) : dup[k] = DuplicateOf(metadata_list, h)

\* C7: every relationship lists at least 2 participant file identifiers and
\* no identifier twice.
C7_ParticipantsUnique ==
    \A k \in 1..Len(relationships) :
       LET files == relationships[k].files
       IN /\ Len(files) >= 2
          /\ \A i, j \in 1..Len(files) : i # j => files[i] # files[j]

GroupingTypes == {"shared_author", "shared_device", "shared_software", "duplicate_files"}

\* C8: no relationship of a grouping correlator has the empty string as its
\* group key.
C8_NoEmptyGroupKey ==
    \A k \in 1..Len(relationships) :
       relationships[k].type \in GroupingTypes => relationships[k].value # Str(<<>>)

\* C9: correlate() is deterministic: a run of the same list in a process
\* with another string hash seed produces the same relationship sequence.
C9_Deterministic ==
    corr_calls = 1 =>
       \A seed \in Orders(AllKeys(metadata_list)) :
          FirstCorrelate(metadata_list, seed).relationships = relationships

\* The 'relationship' attribute the correlator of a type gives its edges.
EdgeLabel(ty) == IF ty = "duplicate_files" THEN "duplicate" ELSE ty

\* C10: graph completeness: for every relationship and every pair of its
\* participants the graph holds an edge between the two files that carries
\* the relationship's type, also when relationships of several types connect
\* the same pair.
C10_GraphComplete ==
    (corr_calls = 1 /\ corr_result.status = "returned") =>
       \A k \in 1..Len(relationships) :
          LET r == relationships[k]
          IN \A i, j \in 1..Len(r.files) :
                i < j => \E e \in graph.edges :
                            /\ e.ends = {r.files[i], r.files[j]}
                            /\ e.attrs.relationship = EdgeLabel(r.type)

\* C11: neither correlate() nor analyze() changes the input list or a record
\* in it, and the two results do not depend on the order of the two calls:
\* whenever each has been called once on its new object, in either order,
\* each result is the one the call gives on its own.
C11_ReadOnlyOrderFree ==
    /\ [][metadata_list' = metadata_list]_vars
    /\ []((corr_calls = 1 /\ anom_calls = 1) =>
            /\ corr_result = FirstCorrelate(metadata_list, hashSeed).result
            /\ relationships = FirstCorrelate(metadata_list, hashSeed).relationships
            /\ graph = FirstCorrelate(metadata_list, hashSeed).graph
            /\ anom_result = FirstAnalyze(metadata_list, now).result
            /\ anomalies = FirstAnalyze(metadata_list, now).anomalies)

\* Both calls have returned on a list that has relationships and anomalies.
C11_Witness ==
    /\ corr_calls = 1 /\ anom_calls = 1
    /\ corr_result.status = "returned" /\ anom_result.status = "returned"
    /\ relationships # <<>> /\ anomalies # <<>>

\* C12: a negative tolerance (km or hours) is rejected with an error before
\* any record is processed: no pass runs to its end under a negative
\* tolerance.
NegativeTolerance(call) ==
    IF call.pass = "gps" THEN call.tolerance.m < 0 ELSE call.tolerance < 0

C12_NegativeToleranceRejected ==
    corr_result.status = "pass_returned" => ~NegativeTolerance(corr_result.call)

\* The coordinates a record carries, and whether it carries both as numbers.
CoordsOf(md) ==
    Get(Get(Get(Meta(md), "exif", EmptyDict), "gps", EmptyDict), "coordinates", None)

Located(md) ==
    /\ CoordsOf(md).t = "dict"
    /\ {"latitude", "longitude"} \subseteq DOMAIN CoordsOf(md).d
    /\ CoordsOf(md).d["latitude"].t = "num"
    /\ CoordsOf(md).d["longitude"].t = "num"

DistanceOf(a, b) ==
    calculate_distance(CoordsOf(a).d["latitude"], CoordsOf(a).d["longitude"],
                       CoordsOf(b).d["latitude"], CoordsOf(b).d["longitude"])

NameOf(md) == Get(Get(md, "file_info", EmptyDict), "name", None)

\* The shared_location relationships of the engine between the files of the
\* records i and j of the list.
LocationsOf(i, j) ==
    {k \in 1..Len(relationships) :
        /\ relationships[k].type = "shared_location"
        /\ relationships[k].files = <<NameOf(metadata_list[i]), NameOf(metadata_list[j])>>}

\* C13: once correlate() has been called, the engine holds for every pair of
\* different records that both carry coordinates exactly one shared_location
\* relationship when the distance of the two is <= 0.1 km, of strength high
\* below 0.01 km and medium otherwise, and none when the distance is larger;
\* records without coordinates are in no shared_location relationship.
C13_SharedLocationPairwise ==
    corr_calls = 1 =>
       /\ \A i, j \in 1..Len(metadata_list) :
             (i < j /\ Located(metadata_list[i]) /\ Located(metadata_list[j])) =>
                IF FLeq(DistanceOf(metadata_list[i], metadata_list[j]), ToleranceKm)
                THEN /\ Cardinality(LocationsOf(i, j)) = 1
                     /\ \A k \in LocationsOf(i, j) :
                           relationships[k].strength =
                              IF FLess(DistanceOf(metadata_list[i], metadata_list[j]),
                                       HighStrengthKm)
                              THEN "high" ELSE "medium"
                ELSE LocationsOf(i, j) = {}
       /\ \A k \in 1..Len(relationships) :
             relationships[k].type = "shared_location" =>
                \A n \in 1..Len(relationships[k].files) :
                   \E i \in 1..Len(metadata_list) :
                      /\ Located(metadata_list[i])
                      /\ NameOf(metadata_list[i]) = relationships[k].files[n]

\* The records i and j of the list are at (0.05, 0.05) and (-0.05, -0.05).
NullIslandPair(i, j) ==
    /\ CoordsOf(metadata_list[i]) = Coordinates(Num(500), Num(500))
    /\ CoordsOf(metadata_list[j]) = Coordinates(Num(-500), Num(-500))

\* The anomalies of a type the detector holds for the file of record i.
AnomaliesOf(i, ty) ==
    {k \in 1..Len(anomalies) :
        anomalies[k].file = NameOf(metadata_list[i]) /\ anomalies[k].type = ty}

\* C14 as stated: records at (0.05, 0.05) and (-0.05, -0.05) each raise a
\* suspicious_gps anomaly in analyze(), and correlate() relates the two with
\* a shared_location relationship.
C14_NullIslandPairRelated ==
    \A i, j \in 1..Len(metadata_list) :
       NullIslandPair(i, j) =>
          /\ anom_calls = 1 =>
                Cardinality(AnomaliesOf(i, "suspicious_gps")) = 1
                /\ Cardinality(AnomaliesOf(j, "suspicious_gps")) = 1
          /\ corr_calls = 1 => LocationsOf(i, j) \cup LocationsOf(j, i) # {}

\* C14, amended: the two records each raise a suspicious_gps anomaly in
\* analyze(), and correlate() returns without a shared_location relationship
\* between them: their distance (15.7 km) is above the 0.1 km tolerance.
C14_NullIslandPairApart ==
    \A i, j \in 1..Len(metadata_list) :
       NullIslandPair(i, j) =>
          /\ anom_calls = 1 =>
                /\ anom_result.status = "returned"
                /\ Cardinality(AnomaliesOf(i, "suspicious_gps")) = 1
                /\ Cardinality(AnomaliesOf(j, "suspicious_gps")) = 1
                /\ \A k \in AnomaliesOf(i, "suspicious_gps") \cup AnomaliesOf(j, "suspicious_gps") :
                      anomalies[k].severity = "medium"
          /\ corr_calls = 1 =>
                /\ corr_result.status = "returned"
                /\ LocationsOf(i, j) \cup LocationsOf(j, i) = {}
                /\ ~FLeq(DistanceOf(metadata_list[i], metadata_list[j]), ToleranceKm)
                /\ RoundMetres(DistanceOf(metadata_list[i], metadata_list[j])) \in 15600..15800

\* Both calls have been made on a list that holds the two records.
C14_Witness ==
    /\ anom_calls = 1 /\ corr_calls = 1
    /\ \E i, j \in 1..Len(metadata_list) : NullIslandPair(i, j)

\* C15: the distance is symmetric and 0 for identical coordinates, and two
\* records with identical coordinates always yield, once correlate() has
\* been called, a shared_location relationship with distance_km 0 and
\* strength high.
C15_IdenticalCoordinates ==
    \A i, j \in 1..Len(metadata_list) :
       (i < j /\ Located(metadata_list[i]) /\ Located(metadata_list[j])) =>
          /\ DistanceOf(metadata_list[i], metadata_list[j])
               = DistanceOf(metadata_list[j], metadata_list[i])
          /\ CoordsOf(metadata_list[i]) = CoordsOf(metadata_list[j]) =>
                /\ DistanceOf(metadata_list[i], metadata_list[j]) = FZero
                /\ corr_calls = 1 =>
                      \E k \in LocationsOf(i, j) :
                         /\ relationships[k].distance_km = 0
                         /\ relationships[k].strength = "high"

\* The timestamp field k of a record denotes an instant after the clock
\* reading c (an offset-aware time by its UTC instant).
StampOf(md, k) == Get(Get(md, "timestamps", EmptyDict), k, None)

AfterNow(md, k, c) ==
    /\ StampOf(md, k).t = "str"
    /\ ~IsRaise(date_parse(StampOf(md, k)))
    /\ date_parse(StampOf(md, k)).secs - date_parse(StampOf(md, k)).off > NowAt(c).secs

\* C16: once analyze() has been called, a record whose created timestamp is
\* after 'now' has a future_timestamp anomaly of severity high for it, and a
\* record whose modified timestamp is after 'now' has a separate one for
\* that.
C16_FutureTimestamps ==
    anom_calls = 1 =>
       \A i \in 1..Len(metadata_list) :
          \A f \in {"created", "modified"} :
             AfterNow(metadata_list[i], f, now) =>
                \E k \in AnomaliesOf(i, "future_timestamp") :
                   /\ anomalies[k].severity = "high"
                   /\ DOMAIN anomalies[k].details = {f}

\* The reference table of first-release years, by lower-case key.
ReleaseYears ==
    { [key |-> <<"p","h","o","t","o","s","h","o","p">>, year |-> 1990],
      [key |-> <<"l","i","g","h","t","r","o","o","m">>, year |-> 2007],
      [key |-> <<"g","i","m","p">>, year |-> 1996],
      [key |-> <<"w","o","r","d">>, year |-> 1983],
      [key |-> <<"e","x","c","e","l">>, year |-> 1985] }

SoftwareOf(md) ==
    Get(Get(Get(Meta(md), "exif", EmptyDict), "software", EmptyDict), "software", None)

OriginalOf(md) ==
    Get(Get(Get(Meta(md), "exif", EmptyDict), "dates", EmptyDict), "datetime_original", None)

\* The table entries whose key the software string of a record contains and
\* whose year is after the year of its parseable datetime_original.
Predated(md) ==
    IF SoftwareOf(md).t = "str" /\ OriginalOf(md).t = "str"
       /\ ~IsRaise(date_parse(OriginalOf(md)))
    THEN {e \in ReleaseYears :
            /\ Contains(str_lower(SoftwareOf(md).s), e.key)
            /\ date_parse(OriginalOf(md)).year < e.year}
    ELSE {}

\* C17: once analyze() has been called, a record has one
\* impossible_software_date anomaly, of severity high, for every table entry
\* whose key its EXIF software string contains (case-insensitively) and
\* whose first-release year is after the year of its parseable
\* datetime_original, and no other impossible_software_date anomaly: none
\* when the year is equal or later, when no key matches, or when software or
\* datetime_original is absent or unparsable.
C17_ImpossibleSoftwareDate ==
    anom_calls = 1 =>
       \A i \in 1..Len(metadata_list) :
          /\ Cardinality(AnomaliesOf(i, "impossible_software_date"))
               = Cardinality(Predated(metadata_list[i]))
          /\ \A e \in Predated(metadata_list[i]) :
                \E k \in AnomaliesOf(i, "impossible_software_date") :
                   /\ anomalies[k].severity = "high"
                   /\ anomalies[k].details.software_release = e.year

\* analyze() has been called on a list with the record that names four
\* tools, which has its two anomalies, and a record with an unparsable date.
C17_Witness ==
    /\ anom_calls = 1
    /\ \E i \in 1..Len(metadata_list) :
          /\ SoftwareOf(metadata_list[i]) = Suite
          /\ Cardinality(AnomaliesOf(i, "impossible_software_date")) = 2
    /\ \E i \in 1..Len(metadata_list) : OriginalOf(metadata_list[i]) = Malformed

\* A record of category archive whose archive block says file_count 0.
EmptyArchive(md) ==
    /\ Get(Get(md, "file_info", EmptyDict), "type", None) = Archive
    /\ Get(Get(Meta(md), "archive", EmptyDict), "file_count", None) = Num(0)

\* C18: once analyze() has been called, a record has an empty_archive
\* anomaly exactly when its category is archive and its file_count is 0:
\* then exactly one, of severity low, and no other anomaly of the file-level
\* check; any other record has none.
C18_EmptyArchive ==
    anom_calls = 1 =>
       \A i \in 1..Len(metadata_list) :
          IF EmptyArchive(metadata_list[i])
          THEN /\ Cardinality(AnomaliesOf(i, "empty_archive")) = 1
               /\ \A k \in AnomaliesOf(i, "empty_archive") : anomalies[k].severity = "low"
               /\ AnomaliesOf(i, "suspicious_file_size") = {}
          ELSE AnomaliesOf(i, "empty_archive") = {}

\* The place of a file in the input list: the first record of that name.
PlaceOf(name) ==
    CHOOSE i \in 1..Len(metadata_list) :
       /\ NameOf(metadata_list[i]) = name
       /\ \A j \in 1..(i - 1) : NameOf(metadata_list[j]) # name

\* C19: most_connected_files of a returned summary lists at most 5 files,
\* each with its graph degree, in non-increasing order of degree, files of
\* equal degree in their input order, and no file outside the list has a
\* higher degree than a file inside it.
C19_MostConnected ==
    corr_result.status = "returned" =>
       LET top == corr_result.summary.most_connected_files
           listed == {top[a].file : a \in 1..Len(top)}
       IN /\ Len(top) <= 5
          /\ Len(top) = 5 \/ Len(top) = Len(graph.nodes)
          /\ \A a \in 1..Len(top) :
                /\ InSeq(top[a].file, graph.nodes)
                /\ top[a].connections = degree(graph, top[a].file)
          /\ \A a, b \in 1..Len(top) :
                a < b =>
                   /\ top[a].file # top[b].file
                   /\ top[a].connections >= top[b].connections
                   /\ top[a].connections = top[b].connections =>
                         PlaceOf(top[a].file) < PlaceOf(top[b].file)
          /\ \A n \in 1..Len(graph.nodes) :
                graph.nodes[n] \notin listed =>
                   \A a \in 1..Len(top) : degree(graph, graph.nodes[n]) <= top[a].connections

\* correlate() has returned on six files of which one, of the same degree
\* as the last listed one, is left out of the five.
C19_Witness ==
    /\ corr_calls = 1
    /\ corr_result.status = "returned"
    /\ Len(graph.nodes) = 6
    /\ Len(corr_result.summary.most_connected_files) = 5
    /\ \E n \in 1..6 :
          /\ \A a \in 1..5 : corr_result.summary.most_connected_files[a].file # graph.nodes[n]
          /\ degree(graph, graph.nodes[n]) = corr_result.summary.most_connected_files[5].connections
    /\ corr_result.summary.most_connected_files[1].connections = 3

\* A dict without the key k, and with the key k at the value v.
Drop(d, k) == Dict([x \in DOMAIN d.d \ {k} |-> d.d[x]])

Put(d, k, v) == Dict([x \in DOMAIN d.d \cup {k} |-> IF x = k THEN v ELSE d.d[x]])

\* The dict d without the field k when k holds a string that does not
\* parse as a date.
DropMalformed(d, k) ==
    IF /\ k \in DOMAIN d.d
       /\ d.d[k].t = "str"
       /\ d.d[k].s # <<>>
       /\ IsRaise(date_parse(d.d[k]))
    THEN Drop(d, k) ELSE d

\* The record md with each malformed timestamp field (created, modified,
\* exif datetime_original) absent.
FieldsAbsent(md) ==
    LET ts == Get(md, "timestamps", None)
        a == IF ts.t = "dict"
             THEN Put(md, "timestamps",
                      DropMalformed(DropMalformed(ts, "created"), "modified"))
             ELSE md
        meta == Get(a, "metadata", None)
        exif == IF meta.t = "dict" THEN Get(meta, "exif", None) ELSE None
        dates == IF exif.t = "dict" THEN Get(exif, "dates", None) ELSE None
    IN IF dates.t = "dict"
       THEN Put(a, "metadata",
                Put(meta, "exif",
                    Put(exif, "dates", DropMalformed(dates, "datetime_original"))))
       ELSE a

\* C20: once analyze() has been called, the detector holds for every record
\* every anomaly that the timestamp check finds on the record with its
\* malformed timestamp fields absent: a malformed field costs no anomaly of
\* the well-formed ones.
C20_MalformedFieldAbsent ==
    anom_calls = 1 =>
       \A i \in 1..Len(metadata_list) :
          \A due \in {CutAtRaise(check_timestamp_anomalies(NameOf(metadata_list[i]),
                                                         FieldsAbsent(metadata_list[i]),
                                                         NowAt(now)))} :
             \A k \in 1..Len(due) : Occurs(due[k], anomalies)

\* Records by their timestamp observations around 2024-01-01T12:00:00: an
\* image with two observations half an hour apart, an image half an hour
\* later, a document whose document block was created 24 hours later, an
\* image one second after that, an image one hour later, and a second file
\* of the name of the first with the same created time.
PairRecords ==
    { Record(FileInfo(NameA, Image, Num(5000), Absent), Timestamps(Noon, Absent),
             MkDict(<< <<"exif", Exif(Absent, Absent,
                                      Str(isoformat(2024, 1, 1, 12, 30, 0, <<>>)))>> >>)),
      Record(FileInfo(NameB, Image, Num(5000), Absent),
             Timestamps(Str(isoformat(2024, 1, 1, 12, 30, 0, <<>>)), Absent),
             MkDict(<< <<"exif", Exif(Absent, Absent, Absent)>> >>)),
      Record(FileInfo(NameC, Document, Num(5000), Absent), Timestamps(Absent, Absent),
             MkDict(<< <<"document",
                         MkDict(<< <<"created",
                                     Str(isoformat(2024, 1, 2, 12, 0, 0, <<>>))>> >>)>> >>)),
      Record(FileInfo(Str(<<"d">>), Image, Num(5000), Absent),
             Timestamps(Str(isoformat(2024, 1, 2, 12, 0, 1, <<>>)), Absent),
             MkDict(<< <<"exif", Exif(Absent, Absent, Absent)>> >>)),
      Record(FileInfo(Str(<<"e">>), Image, Num(5000), Absent),
             Timestamps(Str(isoformat(2024, 1, 1, 13, 0, 0, <<>>)), Absent),
             MkDict(<< <<"exif", Exif(Absent, Absent, Absent)>> >>)),
      Record(FileInfo(NameA, Image, Num(7000), Absent), Timestamps(Noon, Absent),
             MkDict(<< <<"exif", Exif(Absent, Absent, Absent)>> >>)) }

SpecPairs == InitOn(PairRecords) /\ [][Next]_vars

\* The timestamp observations of a record: its filesystem created time, its
\* exif datetime_original and the created time of its document block, each
\* when present and parseable, as an instant in seconds.
ObservationFields == {"created", "datetime_original", "document"}

ObservationOf(md, f) ==
    CASE f = "created" -> StampOf(md, "created")
      [] f = "modified" -> StampOf(md, "modified")
      [] f = "datetime_original" -> OriginalOf(md)
      [] f = "document" -> Get(Get(Meta(md), "document", EmptyDict), "created", None)

Observed(md, f) ==
    /\ ObservationOf(md, f).t = "str"
    /\ ObservationOf(md, f).s # <<>>
    /\ ~IsRaise(date_parse(ObservationOf(md, f)))

InstantOf(md, f) ==
    date_parse(ObservationOf(md, f)).secs - date_parse(ObservationOf(md, f)).off

\* The pairs of observations of the records i and j at most h seconds apart.
ClosePairs(i, j, h) ==
    {p \in ObservationFields \X ObservationFields :
        /\ Observed(metadata_list[i], p[1])
        /\ Observed(metadata_list[j], p[2])
        /\ Abs(InstantOf(metadata_list[i], p[1]) - InstantOf(metadata_list[j], p[2])) <= h}

TimestampsOf(i, j) ==
    {k \in 1..Len(relationships) :
        /\ relationships[k].type = "similar_timestamp"
        /\ relationships[k].files = <<NameOf(metadata_list[i]), NameOf(metadata_list[j])>>}

\* C21: once correlate() has been called, the engine holds for every two
\* different records one similar_timestamp relationship per pair of their
\* observations at most 24 hours apart, of strength high when the two are
\* less than 1 hour apart and medium otherwise, and none for any other pair;
\* every similar_timestamp relationship is between two different records.
C21_SimilarTimestampPairwise ==
    corr_calls = 1 =>
       /\ \A i, j \in 1..Len(metadata_list) :
             i < j =>
                /\ Cardinality(TimestampsOf(i, j)) = Cardinality(ClosePairs(i, j, 86400))
                /\ Cardinality({k \in TimestampsOf(i, j) : relationships[k].strength = "high"})
                      = Cardinality(ClosePairs(i, j, 3599))
                /\ \A k \in TimestampsOf(i, j) :
                      relationships[k].strength \in {"high", "medium"}
       /\ \A k \in 1..Len(relationships) :
             relationships[k].type = "similar_timestamp" =>
                \E i, j \in 1..Len(metadata_list) : i < j /\ k \in TimestampsOf(i, j)

\* Images created at 2024-01-01T12:00:00 by their exif datetime_original:
\* 365 days and one second earlier, 365 days and one second later, 730 days
\* earlier, 730 days later, 365 days later to the second, and none.
DiscrepancyRecords ==
    { Record(FileInfo(NameA, Image, Num(5000), Hash1), Timestamps(Noon, Noon),
             MkDict(<< <<"exif", Exif(Absent, Absent,
                                      Str(isoformat(2023, 1, 1, 11, 59, 59, <<>>)))>> >>)),
      Record(FileInfo(NameB, Image, Num(5000), Hash1), Timestamps(Noon, Noon),
             MkDict(<< <<"exif", Exif(Absent, Absent,
                                      Str(isoformat(2024, 12, 31, 12, 0, 1, <<>>)))>> >>)),
      Record(FileInfo(NameC, Image, Num(5000), Hash1), Timestamps(Noon, Noon),
             MkDict(<< <<"exif", Exif(Absent, Absent,
                                      Str(isoformat(2022, 1, 1, 12, 0, 0, <<>>)))>> >>)),
      Record(FileInfo(Str(<<"d">>), Image, Num(5000), Hash1), Timestamps(Noon, Noon),
             MkDict(<< <<"exif", Exif(Absent, Absent,
                                      Str(isoformat(2025, 12, 31, 12, 0, 0, <<>>)))>> >>)),
      Record(FileInfo(Str(<<"e">>), Image, Num(5000), Hash1), Timestamps(Noon, Noon),
             MkDict(<< <<"exif", Exif(Absent, Absent,
                                      Str(isoformat(2024, 12, 31, 12, 0, 0, <<>>)))>> >>)),
      Record(FileInfo(Str(<<"f">>), Image, Num(5000), Hash1), Timestamps(Noon, Noon),
             MkDict(<< <<"exif", Exif(Absent, Absent, Absent)>> >>)) }

SpecDiscrepancy == InitOn(DiscrepancyRecords) /\ [][Next]_vars

\* The seconds between the exif datetime_original and the filesystem
\* created time of a record that carries both, in absolute value.
ApartSeconds(md) ==
    Abs(InstantOf(md, "datetime_original") - InstantOf(md, "created"))

\* C22: once analyze() has been called, a record has a timestamp_discrepancy
\* anomaly exactly when its exif datetime_original parses, its created time
\* is present and the two are more than 365 days apart; the anomaly is one,
\* of severity medium, and its difference_days is the whole days of the
\* absolute difference, whichever of the two dates is the earlier.
C22_TimestampDiscrepancy ==
    anom_calls = 1 =>
       \A i \in 1..Len(metadata_list) :
          /\ AnomaliesOf(i, "timestamp_discrepancy") # {}
                <=> /\ Observed(metadata_list[i], "datetime_original")
                    /\ Observed(metadata_list[i], "created")
                    /\ ApartSeconds(metadata_list[i]) > 365 * 86400
          /\ Cardinality(AnomaliesOf(i, "timestamp_discrepancy")) <= 1
          /\ \A k \in AnomaliesOf(i, "timestamp_discrepancy") :
                /\ anomalies[k].severity = "medium"
                /\ anomalies[k].details.difference_days
                      = ApartSeconds(metadata_list[i]) \div 86400

\* Images by their coordinates, in 1e-4 degree: latitude 91; longitude 181
\* at latitude 0.05; (0.05, -0.05); the corner (90, -180); no coordinates.
InvalidRecords ==
    { Record(FileInfo(NameA, Image, Num(5000), Hash1), Timestamps(Noon, Noon),
             MkDict(<< <<"exif", Exif(Coordinates(Num(910000), Num(0)), Absent, Absent)>> >>)),
      Record(FileInfo(NameB, Image, Num(5000), Hash1), Timestamps(Noon, Noon),
             MkDict(<< <<"exif", Exif(Coordinates(Num(500), Num(1810000)), Absent, Absent)>> >>)),
      Record(FileInfo(NameC, Image, Num(5000), Hash1), Timestamps(Noon, Noon),
             MkDict(<< <<"exif", Exif(Coordinates(Num(500), Num(-500)), Absent, Absent)>> >>)),
      Record(FileInfo(Str(<<"d">>), Image, Num(5000), Hash1), Timestamps(Noon, Noon),
             MkDict(<< <<"exif", Exif(Coordinates(Num(900000), Num(-1800000)), Absent, Absent)>> >>)),
      Record(FileInfo(Str(<<"e">>), Image, Num(5000), Hash1), Timestamps(Noon, Noon),
             MkDict(<< <<"exif", Exif(Absent, Absent, Absent)>> >>)) }

SpecInvalid == InitOn(InvalidRecords) /\ [][NextDetector]_vars

\* Latitudes and longitudes around the limits of the two tests, in 1e-4
\* degree.
GridLatitudes == {-910000, -900000, -1000, -999, 0, 500, 999, 1000, 900000, 900001}

GridLongitudes == {-1810000, -1800000, -1000, -999, 0, 500, 999, 1000, 1800000, 1800001}

OutOfRange(lat, lon) == lat < -900000 \/ lat > 900000 \/ lon < -1800000 \/ lon > 1800000

NearZero(lat, lon) == -1000 < lat /\ lat < 1000 /\ -1000 < lon /\ lon < 1000

\* The types of the anomalies of the GPS check on an image at (lat, lon).
GpsTypesAt(lat, lon) ==
    LET found == CutAtRaise(check_gps_anomalies(NameA,
                     Record(FileInfo(NameA, Image, Num(5000), Hash1), Timestamps(Noon, Noon),
                            MkDict(<< <<"exif", Exif(Coordinates(Num(lat), Num(lon)),
                                                     Absent, Absent)>> >>))))
    IN {found[k].type : k \in 1..Len(found)}

\* The types the GPS check finds at each point of the grid.
GridTypes ==
    [p \in GridLatitudes \X GridLongitudes |-> GpsTypesAt(p[1], p[2])]

\* Once analyze() has been called, a record has one invalid_gps anomaly, of
\* severity high, exactly when it has coordinates out of range, and one
\* suspicious_gps anomaly, of severity medium, exactly when it has
\* coordinates within 0.1 degree of (0, 0) on both axes; on the grid the
\* GPS check finds each of the two by the same conditions.
GpsExactlyWhen ==
    /\ \A lat \in GridLatitudes : \A lon \in GridLongitudes :
          /\ "invalid_gps" \in GridTypes[<<lat, lon>>] <=> OutOfRange(lat, lon)
          /\ "suspicious_gps" \in GridTypes[<<lat, lon>>] <=> NearZero(lat, lon)
    /\ anom_calls = 1 =>
          \A i \in 1..Len(metadata_list) :
             /\ Cardinality(AnomaliesOf(i, "invalid_gps")) =
                   IF Located(metadata_list[i])
                      /\ OutOfRange(CoordsOf(metadata_list[i]).d.latitude.n,
                                    CoordsOf(metadata_list[i]).d.longitude.n)
                   THEN 1 ELSE 0
             /\ Cardinality(AnomaliesOf(i, "suspicious_gps")) =
                   IF Located(metadata_list[i])
                      /\ NearZero(CoordsOf(metadata_list[i]).d.latitude.n,
                                  CoordsOf(metadata_list[i]).d.longitude.n)
                   THEN 1 ELSE 0
             /\ \A k \in AnomaliesOf(i, "invalid_gps") : anomalies[k].severity = "high"
             /\ \A k \in AnomaliesOf(i, "suspicious_gps") : anomalies[k].severity = "medium"

InconsistencyRecords ==
    { Record(FileInfo(NameA, Image, Num(5000), Hash1), Timestamps(Later, Noon),
             MkDict(<< <<"exif", Exif(Absent, Absent, Noon)>> >>)),
      Record(FileInfo(NameB, Image, Num(5000), Hash1),
             Timestamps(Noon, Str(isoformat(2024, 1, 1, 11, 59, 59, <<>>))),
             MkDict(<< <<"exif", Exif(Absent, Absent, Absent)>> >>)),
      Record(FileInfo(NameC, Image, Num(5000), Hash1), Timestamps(Noon, Noon),
             MkDict(<< <<"exif", Exif(Absent, Absent, Absent)>> >>)),
      Record(FileInfo(Str(<<"d">>), Image, Num(5000), Hash1), Timestamps(Noon, Malformed),
             MkDict(<< <<"exif", Exif(Absent, Absent, Absent)>> >>)),
      Record(FileInfo(Str(<<"e">>), Image, Num(5000), Hash1), Timestamps(Absent, Noon),
             MkDict(<< <<"exif", Exif(Absent, Absent, Absent)>> >>)),
      Record(FileInfo(Str(<<"f">>), Image, Num(5000), Hash1), Timestamps(LaterUtc, NoonUtc),
             MkDict(<< <<"exif", Exif(Absent, Absent, Absent)>> >>)) }

SpecInconsistency == InitOn(InconsistencyRecords) /\ [][NextDetector]_vars

\* The modified time of a record is strictly before its created time, both
\* present and parseable.
ModifiedFirst(md) ==
    /\ Observed(md, "created")
    /\ Observed(md, "modified")
    /\ InstantOf(md, "modified") < InstantOf(md, "created")

ValueRecords ==
    { Record(FileInfo(NameA, Document, Num(5000), Absent), Timestamps(Absent, Absent),
             MkDict(<< <<"document", MkDict(<< <<"author", Al>>, <<"creator", Wd>>,
                                              <<"producer", Pd>> >>)>> >>)),
      Record(FileInfo(NameB, Image, Num(5000), Absent), Timestamps(Absent, Absent),
             MkDict(<< <<"exif", MkDict(<< <<"software",
                          MkDict(<< <<"artist", Str(<<" ", "A", "L", " ">>)>>,
                                    <<"software", Str(<<"w", "d", " ">>)>> >>)>> >>)>> >>)),
      Record(FileInfo(NameC, Str(<<"a", "u", "d", "i", "o">>), Num(5000), Absent),
             Timestamps(Absent, Absent),
             MkDict(<< <<"media", MkDict(<< <<"audio_tags",
                          MkDict(<< <<"artist", Str(<<"a", "l">>)>> >>)>> >>)>>,
                       <<"web", MkDict(<< <<"generator", Str(<<"P", "D">>)>> >>)>> >>)),
      Record(FileInfo(Str(<<"d">>), Document, Num(5000), Absent), Timestamps(Absent, Absent),
             MkDict(<< <<"document", MkDict(<< <<"creator", Wd>>,
                                              <<"producer", Str(<<"W", "D">>)>> >>)>> >>)),
      Record(FileInfo(Str(<<"e">>), Document, Num(5000), Absent), Timestamps(Absent, Absent),
             MkDict(<< <<"document", MkDict(<< <<"author", Str(<<"B", "o">>)>> >>)>> >>)) }

SpecValues == InitOn(ValueRecords) /\ [][NextCorrelator]_vars

\* The normalized values of a record among the attribute values vals: the
\* non-empty strings, lower-cased and trimmed.
Normalized(vals) ==
    {LowerStrip(v) : v \in {w \in vals : w.t = "str" /\ w.s # <<>>}}

AuthorValues(md) ==
    Normalized({Get(Get(Meta(md), "document", EmptyDict), "author", None),
                Get(Get(Get(Meta(md), "exif", EmptyDict), "software", EmptyDict),
                    "artist", None),
                Get(Get(Get(Meta(md), "media", EmptyDict), "audio_tags", EmptyDict),
                    "artist", None)})

SoftwareValues(md) ==
    Normalized({Get(Get(Get(Meta(md), "exif", EmptyDict), "software", EmptyDict),
                    "software", None),
                Get(Get(Meta(md), "document", EmptyDict), "creator", None),
                Get(Get(Meta(md), "document", EmptyDict), "producer", None),
                Get(Get(Meta(md), "web", EmptyDict), "generator", None)})

\* The names of the records from i on whose values vals[i] hold v, in input
\* order.
RECURSIVE MembersFrom(_, _, _)
MembersFrom(vals, v, i) ==
    IF i > Len(metadata_list) THEN <<>>
    ELSE (IF v \in vals[i] THEN <<NameOf(metadata_list[i])>> ELSE <<>>)
         \o MembersFrom(vals, v, i + 1)

\* The relationships of type ty are the groups of the values vals: one for
\* each value of two records or more, of the given strength, listing the
\* records that hold the value once each in input order, and no other.
ValueGrouped(ty, strength, vals) ==
    /\ \A v \in UNION {vals[i] : i \in 1..Len(metadata_list)} :
          Cardinality({k \in 1..Len(relationships) :
                          relationships[k].type = ty /\ relationships[k].value = v})
             = IF Len(MembersFrom(vals, v, 1)) >= 2 THEN 1 ELSE 0
    /\ \A k \in 1..Len(relationships) :
          relationships[k].type = ty =>
             /\ relationships[k].strength = strength
             /\ relationships[k].files = MembersFrom(vals, relationships[k].value, 1)
             /\ Len(relationships[k].files) >= 2

\* C25: once correlate() has been called, the shared_author relationships
\* (strength high) are the groups of the lower-cased, trimmed author values
\* and the shared_software relationships (strength medium) those of the
\* software values: one relationship per value of two records or more, with
\* the contributing records once each in input order, a record of several
\* values in each of their groups.
C25_ValueGroups ==
    corr_calls = 1 =>
       /\ ValueGrouped("shared_author", "high",
                       [i \in 1..Len(metadata_list) |-> AuthorValues(metadata_list[i])])
       /\ ValueGrouped("shared_software", "medium",
                       [i \in 1..Len(metadata_list) |-> SoftwareValues(metadata_list[i])])

\* correlate() has been called and the engine holds two shared_software
\* relationships that share a record, and a shared_author relationship of
\* three records.
C25_Witness ==
    /\ corr_calls = 1
    /\ \E k, n \in 1..Len(relationships) :
          /\ k # n
          /\ relationships[k].type = "shared_software"
          /\ relationships[n].type = "shared_software"
          /\ relationships[k].value # relationships[n].value
          /\ relationships[k].files[1] = relationships[n].files[1]
    /\ \E k \in 1..Len(relationships) :
          /\ relationships[k].type = "shared_author"
          /\ Len(relationships[k].files) = 3

\* The camera block of an image.
Camera(make, model) ==
    MkDict(<< <<"exif", MkDict(<< <<"camera",
                 MkDict(<< <<"make", make>>, <<"model", model>> >>)>> >>)>> >>)

\* Images by their camera: "Canon" "EOS"; " CANON" "eos "; "Canon" without a
\* model; an empty make with "EOS"; "Nikon" "D5".
DeviceRecords ==
    { Record(FileInfo(NameA, Image, Num(5000), Absent), Timestamps(Absent, Absent),
             Camera(Str(<<"C", "a", "n", "o", "n">>), Str(<<"E", "O", "S">>))),
      Record(FileInfo(NameB, Image, Num(5000), Absent), Timestamps(Absent, Absent),
             Camera(Str(<<" ", "C", "A", "N", "O", "N">>), Str(<<"e", "o", "s", " ">>))),
      Record(FileInfo(NameC, Image, Num(5000), Absent), Timestamps(Absent, Absent),
             Camera(Str(<<"C", "a", "n", "o", "n">>), Absent)),
      Record(FileInfo(Str(<<"d">>), Image, Num(5000), Absent), Timestamps(Absent, Absent),
             Camera(Str(<<>>), Str(<<"E", "O", "S">>))),
      Record(FileInfo(Str(<<"e">>), Image, Num(5000), Absent), Timestamps(Absent, Absent),
             Camera(Str(<<"N", "i", "k", "o", "n">>), Str(<<"D", "5">>))) }

SpecDevices == InitOn(DeviceRecords) /\ [][NextCorrelator]_vars

\* The device of a record: 'make model', lower-cased and trimmed, when both
\* are present and non-empty.
DeviceValues(md) ==
    LET camera == Get(Get(Meta(md), "exif", EmptyDict), "camera", EmptyDict)
        make == Get(camera, "make", None)
        model == Get(camera, "model", None)
    IN IF make.t = "str" /\ make.s # <<>> /\ model.t = "str" /\ model.s # <<>>
       THEN {LowerStrip(Str(make.s \o <<" ">> \o model.s))}
       ELSE {}

\* C26: once correlate() has been called, the shared_device relationships
\* are the groups of the records by their device: one relationship of
\* strength high for each device of two records or more, listing those
\* records, and a record without a make or without a model is in none.
C26_DeviceGroups ==
    corr_calls = 1 =>
       /\ ValueGrouped("shared_device", "high",
                       [i \in 1..Len(metadata_list) |-> DeviceValues(metadata_list[i])])
       /\ \A i \in 1..Len(metadata_list) :
             DeviceValues(metadata_list[i]) = {} =>
                \A k \in 1..Len(relationships) :
                   relationships[k].type = "shared_device" =>
                      ~InSeq(NameOf(metadata_list[i]), relationships[k].files)

\* correlate() has been called on the two Canon images, an image without a
\* model and an image of another camera, and the engine holds the one
\* shared_device relationship of the first two.
C26_Witness ==
    /\ corr_calls = 1
    /\ Len(metadata_list) = 3
    /\ \E i \in 1..3 : DeviceValues(metadata_list[i]) = {}
    /\ Cardinality({k \in 1..Len(relationships) :
                       relationships[k].type = "shared_device"}) = 1
    /\ \E k \in 1..Len(relationships) :
          /\ relationships[k].type = "shared_device"
          /\ relationships[k].value = Str(<<"c", "a", "n", "o", "n", " ", "e", "o", "s">>)
          /\ Len(relationships[k].files) = 2

\* Documents by their creator and producer: "Microsoft Word" and "Adobe
\* Photoshop CS"; "Microsoft Word" and "Writer"; "Writer" and "WRITER";
\* "Writer" and an empty producer, with an exif block of Photoshop and 1985;
\* "Writer" and "Adobe Photoshop CS" with that exif block.
Writer == Str(<<"W", "r", "i", "t", "e", "r">>)
MicrosoftWord == Str(<<"M", "i", "c", "r", "o", "s", "o", "f", "t", " ", "W", "o", "r", "d">>)

ProducerRecords ==
    { Record(FileInfo(NameA, Document, Num(5000), Hash1), Timestamps(Noon, Noon),
             MkDict(<< <<"document", MkDict(<< <<"creator", MicrosoftWord>>,
                                              <<"producer", Photoshop>> >>)>> >>)),
      Record(FileInfo(NameB, Document, Num(5000), Hash1), Timestamps(Noon, Noon),
             MkDict(<< <<"document", MkDict(<< <<"creator", MicrosoftWord>>,
                                              <<"producer", Writer>> >>)>> >>)),
      Record(FileInfo(NameC, Document, Num(5000), Hash1), Timestamps(Noon, Noon),
             MkDict(<< <<"document",
                         MkDict(<< <<"creator", Writer>>,
                                   <<"producer", Str(<<"W", "R", "I", "T", "E", "R">>)>> >>)>> >>)),
      Record(FileInfo(Str(<<"d">>), Document, Num(5000), Hash1), Timestamps(Noon, Noon),
             MkDict(<< <<"document", MkDict(<< <<"creator", Writer>>,
                                              <<"producer", Str(<<>>)>> >>)>>,
                       <<"exif", Exif(Absent, Photoshop,
                                      Str(isoformat(1985, 1, 1, 0, 0, 0, <<>>)))>> >>)),
      Record(FileInfo(Str(<<"e">>), Document, Num(5000), Hash1), Timestamps(Noon, Noon),
             MkDict(<< <<"document", MkDict(<< <<"creator", Writer>>,
                                              <<"producer", Photoshop>> >>)>>,
                       <<"exif", Exif(Absent, Photoshop,
                                      Str(isoformat(1985, 1, 1, 0, 0, 0, <<>>)))>> >>)) }

SpecProducers == InitOn(ProducerRecords) /\ [][NextDetector]_vars

\* The vendor substrings, and whether a name holds one of them, whatever
\* the case of its letters.
VendorSubstrings ==
    { <<"m", "i", "c", "r", "o", "s", "o", "f", "t">>, <<"a", "d", "o", "b", "e">>,
      <<"l", "i", "b", "r", "e">> }

OfVendor(v) == \E x \in VendorSubstrings : Contains(str_lower(v.s), x)

\* The creator and the producer of the document block of a record are both
\* present and non-empty, differ case-insensitively, and one of them is of
\* no vendor.
CreatorProducerDiffer(md) ==
    LET doc == Get(Meta(md), "document", EmptyDict)
        creator == Get(doc, "creator", None)
        producer == Get(doc, "producer", None)
    IN /\ creator.t = "str" /\ creator.s # <<>>
       /\ producer.t = "str" /\ producer.s # <<>>
       /\ str_lower(creator.s) # str_lower(producer.s)
       /\ ~OfVendor(creator) \/ ~OfVendor(producer)

\* C27: once analyze() has been called, a record has one
\* software_inconsistency anomaly, of severity low, exactly when its
\* document creator and producer are both present and non-empty, differ
\* case-insensitively, and at least one of them contains none of the vendor
\* substrings microsoft, adobe, libre (in any case of letters); whether the
\* record also has an impossible_software_date anomaly makes no difference.
C27_SoftwareInconsistency ==
    anom_calls = 1 =>
       \A i \in 1..Len(metadata_list) :
          /\ Cardinality(AnomaliesOf(i, "software_inconsistency"))
                = IF CreatorProducerDiffer(metadata_list[i]) THEN 1 ELSE 0
          /\ \A k \in AnomaliesOf(i, "software_inconsistency") :
                anomalies[k].severity = "low"

\* analyze() has been called; one record has a software_inconsistency and
\* an impossible_software_date anomaly, one only the second, one only the
\* first.
C27_Witness ==
    /\ anom_calls = 1
    /\ \E i, j, n \in 1..Len(metadata_list) :
          /\ AnomaliesOf(i, "software_inconsistency") # {}
          /\ AnomaliesOf(i, "impossible_software_date") # {}
          /\ AnomaliesOf(j, "software_inconsistency") = {}
          /\ AnomaliesOf(j, "impossible_software_date") # {}
          /\ AnomaliesOf(n, "software_inconsistency") # {}
          /\ AnomaliesOf(n, "impossible_software_date") = {}

\* Records by category and blocks: an image without blocks, an image with
\* an image-properties block, an image with an exif block, a document whose
\* block has a title only, a document with a producer, an archive without
\* blocks.
CompletenessRecords ==
    { Record(FileInfo(NameA, Image, Num(5000), Hash1), Timestamps(Noon, Noon), EmptyDict),
      Record(FileInfo(NameB, Image, Num(5000), Hash1), Timestamps(Noon, Noon),
             MkDict(<< <<"image", MkDict(<< <<"format", Str(<<"J", "P", "E", "G">>)>> >>)>> >>)),
      Record(FileInfo(NameC, Image, Num(5000), Hash1), Timestamps(Noon, Noon),
             MkDict(<< <<"exif", Exif(Absent, Absent, Absent)>> >>)),
      Record(FileInfo(Str(<<"d">>), Document, Num(5000), Hash1), Timestamps(Noon, Noon),
             MkDict(<< <<"document", MkDict(<< <<"title", Str(<<"T">>)>> >>)>> >>)),
      Record(FileInfo(Str(<<"e">>), Document, Num(5000), Hash1), Timestamps(Noon, Noon),
             MkDict(<< <<"document", MkDict(<< <<"producer", Writer>> >>)>> >>)),
      Record(FileInfo(Str(<<"f">>), Archive, Num(5000), Hash1), Timestamps(Noon, Noon),
             EmptyDict) }

SpecCompleteness == InitOn(CompletenessRecords) /\ [][NextDetector]_vars

\* A value is present: a non-empty string, a non-empty block, a number
\* other than zero.
Present(v) ==
    \/ v.t = "str" /\ v.s # <<>>
    \/ v.t = "dict" /\ DOMAIN v.d # {}
    \/ v.t = "num" /\ v.n # 0

CategoryOf(md) == Get(Get(md, "file_info", EmptyDict), "type", None)

\* The severity of the missing_metadata anomaly due for a record, if any.
DueMissing(md) ==
    IF /\ CategoryOf(md) = Image
       /\ ~Present(Get(Meta(md), "exif", None))
       /\ ~Present(Get(Meta(md), "image", None))
    THEN {"medium"}
    ELSE IF /\ CategoryOf(md) = Document
            /\ \A k \in {"author", "creator", "producer"} :
                  ~Present(Get(Get(Meta(md), "document", EmptyDict), k, None))
    THEN {"low"}
    ELSE {}

\* C28: once analyze() has been called, an image has one missing_metadata
\* anomaly, of severity medium, exactly when it has neither an exif nor an
\* image-properties block; a document has one, of severity low, exactly
\* when none of author, creator, producer is present; a record of another
\* category has none.
C28_MissingMetadata ==
    anom_calls = 1 =>
       \A i \in 1..Len(metadata_list) :
          /\ Cardinality(AnomaliesOf(i, "missing_metadata"))
                = Cardinality(DueMissing(metadata_list[i]))
          /\ \A k \in AnomaliesOf(i, "missing_metadata") :
                anomalies[k].severity \in DueMissing(metadata_list[i])

\* analyze() has been called on an image flagged medium, a document flagged
\* low and an archive without blocks that is not flagged.
C28_Witness ==
    /\ anom_calls = 1
    /\ \E i, j, n \in 1..Len(metadata_list) :
          /\ \E k \in AnomaliesOf(i, "missing_metadata") : anomalies[k].severity = "medium"
          /\ \E k \in AnomaliesOf(j, "missing_metadata") : anomalies[k].severity = "low"
          /\ CategoryOf(metadata_list[n]) = Archive
          /\ Meta(metadata_list[n]) = EmptyDict
          /\ AnomaliesOf(n, "missing_metadata") = {}

\* C29: the summary of a result that analyze() returned agrees with the
\* anomaly list returned with it: the counts of high, medium and low are
\* the numbers of the anomalies of each severity and sum to total_anomalies,
\* by_type holds for each type that occurs the number of its anomalies, and
\* affected_files holds the files of the anomalies, each once.
C29_SummaryConsistent ==
    anom_result.status = "returned" =>
       /\ anom_result.total_anomalies = Len(anomalies)
       /\ anom_result.summary.by_severity.high + anom_result.summary.by_severity.medium
             + anom_result.summary.by_severity.low = anom_result.total_anomalies
       /\ \A sev \in {"high", "medium", "low"} :
             anom_result.summary.by_severity[sev]
                = Cardinality({k \in 1..Len(anomalies) : anomalies[k].severity = sev})
       /\ DOMAIN anom_result.summary.by_type = {anomalies[k].type : k \in 1..Len(anomalies)}
       /\ \A ty \in DOMAIN anom_result.summary.by_type :
             anom_result.summary.by_type[ty]
                = Cardinality({k \in 1..Len(anomalies) : anomalies[k].type = ty})
       /\ anom_result.summary.affected_files = {anomalies[k].file : k \in 1..Len(anomalies)}

\* analyze() has returned anomalies of the three severities and of three
\* types, two of them of one severity for one file, and more anomalies than
\* files.
C29_Witness ==
    /\ anom_result.status = "returned"
    /\ anom_result.summary.by_severity.high >= 2
    /\ anom_result.summary.by_severity.medium >= 1
    /\ anom_result.summary.by_severity.low >= 1
    /\ Cardinality(DOMAIN anom_result.summary.by_type) >= 3
    /\ Cardinality(anom_result.summary.affected_files) >= 2
    /\ anom_result.total_anomalies > Cardinality(anom_result.summary.affected_files)
    /\ \E k, n \in 1..Len(anomalies) :
          k # n /\ anomalies[k].file = anomalies[n].file
                /\ anomalies[k].severity = anomalies[n].severity

\* The sum of the counts f[x] for x in S.
RECURSIVE SumCounts(_, _)
SumCounts(f, S) ==
    IF S = {} THEN 0
    ELSE LET x == CHOOSE y \in S : TRUE IN f[x] + SumCounts(f, S \ {x})

\* A file takes part in a relationship the engine holds.
TakesPart(name) ==
    \E k \in 1..Len(relationships) : InSeq(name, relationships[k].files)

\* C30: in the result that correlate() returned, every file of the input
\* is a node of the graph; isolated_files lists, each once, exactly the
\* files that take part in no relationship, which are the nodes of degree
\* 0; and the counts of relationship_types sum to total_relationships, the
\* number of the relationships.
C30_IsolatedFiles ==
    corr_result.status = "returned" =>
       /\ \A i \in 1..Len(metadata_list) :
             InSeq(file_name(metadata_list[i], i - 1), graph.nodes)
       /\ \A n \in 1..Len(graph.nodes) :
             /\ InSeq(graph.nodes[n], corr_result.summary.isolated_files)
                   <=> ~TakesPart(graph.nodes[n])
             /\ TakesPart(graph.nodes[n]) <=> degree(graph, graph.nodes[n]) > 0
       /\ \A a, b \in 1..Len(corr_result.summary.isolated_files) :
             /\ InSeq(corr_result.summary.isolated_files[a], graph.nodes)
             /\ a # b => corr_result.summary.isolated_files[a]
                            # corr_result.summary.isolated_files[b]
       /\ SumCounts(corr_result.summary.relationship_types,
                    DOMAIN corr_result.summary.relationship_types)
             = corr_result.total_relationships
       /\ corr_result.total_relationships = Len(relationships)

\* correlate() has returned a result with a relationship and with an
\* isolated file.
C30_Witness ==
    /\ corr_result.status = "returned"
    /\ Len(relationships) >= 1
    /\ Len(corr_result.summary.isolated_files) >= 1
    /\ Len(graph.nodes) = 3
====
